---------------------------- MODULE Spec2Model ----------------------------
(***************************************************************************)
(* Model of the exemplar memory subsystem of videx (ml_service).           *)
(*                                                                         *)
(* FAISSRetriever (src/ml_service/services/retriever.py) owns a FAISS      *)
(* IndexIDMap over an IndexFlatIP, a metadata dict keyed by the same       *)
(* integer ids and a next-id counter, and persists them as two files:     *)
(* faiss.index and metadata.json.                                          *)
(*                                                                         *)
(* StyleScorer (src/ml_service/services/style_scorer.py) owns a centroid   *)
(* and an observation count per label and a bounded history per annotator, *)
(* persists them as label_centroids.json and annotator_profiles.json, and  *)
(* scores and ranks suggestions against them.                              *)
(*                                                                         *)
(* The endpoints of the service (src/ml_service/main.py) are coroutines    *)
(* of one event loop; the backend (src/backend/app) keeps the annotations  *)
(* of each document and calls the service over HTTP.                       *)
(***************************************************************************)
EXTENDS Integers, Sequences, FiniteSets, TLC

VARIABLES
    id_map,        \* self.id_map: [xb: stored vectors, ids: their ids], parallel arrays
    metadata,      \* self.metadata: exemplar id -> metadata record
    next_id,       \* self._next_id
    indexFile,     \* the file faiss.index
    metadataFile,  \* the file metadata.json
    up,            \* TRUE while a FAISSRetriever object exists in a running process
    last,          \* the last call made, its arguments and its outcome
    returned,      \* history: the ids add has returned, in order
    recovered,     \* history: TRUE once the files were reloaded after a _save failed
    faults,        \* history: the number of calls whose _save failed
    flushed,       \* history: the object's state at the last _save that completed
    label_centroids,     \* StyleScorer.label_centroids: label -> centroid
    label_counts,        \* StyleScorer.label_counts: label -> number of observations
    annotator_profiles,  \* StyleScorer.annotator_profiles: annotator id -> history
    centroidsFile,       \* the file label_centroids.json
    profilesFile,        \* the file annotator_profiles.json
    observed,      \* history: label -> the embeddings update_label_centroid was given
    arrived,       \* history: annotator id -> what update_annotator_profile was given
    updates,       \* history: the number of calls of the two update methods
    reloaded,      \* history: TRUE once a StyleScorer was constructed anew
    pending,       \* the requests the event loop has accepted and not yet started
    running,       \* request -> the frame of its handler, while the handler is in progress
    current,       \* the request whose handler the event loop is executing, if any
    removed,       \* history: the sum of the removed_count of the delete_exemplar calls
    documents,     \* backend: document id -> the status of the document in storage
    annotations,   \* backend: document id -> the annotations of the document, in order
    reachable,     \* TRUE while the ML service answers the backend's requests
    origin,        \* history: exemplar id -> the id of the annotation it was created from
    issued,        \* history: the document and annotation ids uuid4 has given
    handlers       \* backend: the frames of the handlers that await, and of those that ended

storeVars == <<id_map, metadata, next_id, indexFile, metadataFile, up, returned, recovered,
               faults, flushed>>

styleVars == <<label_centroids, label_counts, annotator_profiles, centroidsFile, profilesFile,
               observed, arrived, updates, reloaded>>

requestVars == <<pending, running, current, removed>>

backendVars == <<documents, annotations, reachable, origin, issued, handlers>>

vars == <<storeVars, last, styleVars, requestVars, backendVars>>

-----------------------------------------------------------------------------
(* Bounds of the model *)

\* The vectors have this many components (settings.embedding_dim, scaled down).
dimension == 2

\* Add is not called once the next-id counter has reached MaxId.
MaxId == 3

\* Where writes fail, add is not called once the counter has reached MaxFaultyId.
MaxFaultyId == 2

\* At most this many calls have a _save that fails.
MaxFaults == 1

\* Largest k a search is called with.
MaxK == 2

\* Add is not called in the search specification once next_id has reached this.
MaxSearchId == 7

\* Nor, where the over-fetch is looked at, once the counter has reached this.
MaxFetchId == 4

\* Binary places of the numbers the StyleScorer computes with (float32, scaled
\* down).
FracBits == 1

\* An annotator's history holds this many entries (100, scaled down).
ProfileCapacity == 2

\* _save writes this many entries of each history (50, scaled down).
SavedCapacity == 1

\* The StyleScorer's update methods are called this many times at most.
MaxUpdates == 3

\* The endpoint add_exemplar is not called once next_id has reached this.
MaxAppId == 2

\* Nor, where the read paths are looked at, once next_id has reached this.
MaxReadId == 2

\* At most this many requests are in the service at a time.
MaxInFlight == 2

\* The ids of the exemplars stay below this where the event loop is followed.
MaxLoopId == 2

-----------------------------------------------------------------------------
(* Constants of the program *)

\* compute_style_similarity looks at this many of the annotator's own last
\* embeddings.
OwnRecent == 10

\* compute_style_similarity looks at this many last embeddings of each profile
\* when it pools them.
OthersRecent == 5

\* The endpoint score_annotation retrieves this many exemplars.
ScoreTopK == 5

-----------------------------------------------------------------------------
(* Values *)

Min(a, b) == IF a <= b THEN a ELSE b

Range(s) == {s[i] : i \in DOMAIN s}

\* Optional[...]: None is <<>>, a value x is <<x>>.
None == <<>>

Some(x) == <<x>>

\* Python truthiness of an Optional[str]: None and "" are falsy.
Truthy(o) == o # None /\ o[1] # ""

Basis(i) == [j \in 1..dimension |-> IF j = i THEN 1 ELSE 0]

Ones == [j \in 1..dimension |-> 1]

Texts == {"Apple", "apple"}

Labels == {"ORG", "PER"}

Docs == {"doc1"}

Exemplar(embedding, text, label) == [embedding |-> embedding, text |-> text, label |-> label]

\* What add is called with.
Exemplars ==
    {Exemplar(Basis(1), "Apple", "ORG"), Exemplar(Basis(2), "Apple", "PER"),
     Exemplar(Ones, "apple", "ORG")}

\* What add is called with where writes fail.
FaultyExemplars == {Exemplar(Basis(1), "Apple", "ORG"), Exemplar(Basis(2), "apple", "PER")}

\* What add is called with in the search specification.
SearchExemplars ==
    {Exemplar(Basis(1), "Apple", "PER"), Exemplar(Basis(1), "Apple", "ORG"),
     Exemplar(Basis(2), "Apple", "ORG")}

\* What search is called with.
Queries == {Basis(1), Ones}

LabelFilters == {None, Some(""), Some("ORG"), Some("PER")}

RECURSIVE Dot(_, _)
\* Inner product, the similarity of IndexFlatIP.
Dot(a, b) == IF a = <<>> THEN 0 ELSE Head(a) * Head(b) + Dot(Tail(a), Tail(b))

-----------------------------------------------------------------------------
(* FAISS IndexIDMap over IndexFlatIP *)

\* faiss.IndexIDMap(faiss.IndexFlatIP(dimension)): no vectors.
EmptyIndex == [xb |-> <<>>, ids |-> <<>>]

\* id_map.ntotal
ntotal(im) == Len(im.ids)

\* id_map.add_with_ids(embedding_2d, [exemplar_id]): appends; ids are not checked
\* for duplicates.
add_with_ids(im, v, id) == [xb |-> Append(im.xb, v), ids |-> Append(im.ids, id)]

\* Positions of the index that survive remove_ids([id]), in storage order.
KeptPositions(im, id) == {p \in 1..ntotal(im) : im.ids[p] # id}

RECURSIVE Compact(_, _, _)
\* The entries of s at the positions keep, from position p on, in storage order.
Compact(s, keep, p) ==
    IF p > Len(s) THEN <<>>
    ELSE IF p \in keep THEN <<s[p]>> \o Compact(s, keep, p + 1)
    ELSE Compact(s, keep, p + 1)

\* As remove_ids, dropping the vector at position id instead of those stored
\* under id.
remove_ids_by_position(im, id) ==
    [xb |-> Compact(im.xb, (1..ntotal(im)) \ {id + 1}, 1),
     ids |-> Compact(im.ids, (1..ntotal(im)) \ {id + 1}, 1)]

\* id_map.remove_ids([id]): drops every vector stored under id, keeps the order
\* of the others.
remove_ids(im, id) ==
    [xb |-> Compact(im.xb, KeptPositions(im, id), 1),
     ids |-> Compact(im.ids, KeptPositions(im, id), 1)]

\* The inner product of q with each stored vector.
Scores(im, q) == [p \in 1..ntotal(im) |-> Dot(q, im.xb[p])]

\* The position FAISS ranks first among S: highest score, and among equal scores
\* the one stored first.
BestPos(scores, S) ==
    CHOOSE p \in S : \A r \in S :
        scores[p] > scores[r] \/ (scores[p] = scores[r] /\ p <= r)

RECURSIVE TopFrom(_, _, _, _)
TopFrom(im, scores, n, S) ==
    IF n = 0 \/ S = {} THEN <<>>
    ELSE LET p == BestPos(scores, S)
         IN  <<[id |-> im.ids[p], score |-> scores[p]]>>
                 \o TopFrom(im, scores, n - 1, S \ {p})

\* id_map.search(query_2d, search_k): the search_k nearest, best first, as
\* (id, score) pairs.
index_search(im, q, search_k) ==
    LET scores == Scores(im, q)
    IN  TopFrom(im, scores, search_k, 1..ntotal(im))

-----------------------------------------------------------------------------
(* The two files *)

Digit == <<"0", "1", "2", "3", "4", "5", "6", "7", "8", "9">>

RECURSIVE str(_)
\* Python str(k) of a non-negative int, as its sequence of decimal digits.
str(k) == IF k < 10 THEN <<Digit[k + 1]>> ELSE Append(str(k \div 10), Digit[(k % 10) + 1])

DigitValue(c) == (CHOOSE i \in 1..10 : Digit[i] = c) - 1

RECURSIVE int(_)
\* Python int(s) of a sequence of decimal digits.
int(s) == IF Len(s) = 1 THEN DigitValue(s[1])
          ELSE 10 * int(SubSeq(s, 1, Len(s) - 1)) + DigitValue(s[Len(s)])

RECURSIVE Flatten(_)
Flatten(vs) == IF vs = <<>> THEN <<>> ELSE Head(vs) \o Flatten(Tail(vs))

\* The n vectors of d components that a flat array of n*d numbers holds.
Unflatten(flat, d, n) == [i \in 1..n |-> SubSeq(flat, (i - 1) * d + 1, i * d)]

NoIndexData == [d |-> 0, ntotal |-> 0, xb |-> <<>>, ids |-> <<>>]

NoMetadataData == [metadata |-> <<>>, next_id |-> 0]

AbsentIndexFile == [exists |-> FALSE, valid |-> FALSE, data |-> NoIndexData]

AbsentMetadataFile == [exists |-> FALSE, valid |-> FALSE, data |-> NoMetadataData]

\* A file a write was cut short in: it exists and cannot be read back.
TornIndexFile == [exists |-> TRUE, valid |-> FALSE, data |-> NoIndexData]

TornMetadataFile == [exists |-> TRUE, valid |-> FALSE, data |-> NoMetadataData]

\* faiss.write_index(self.id_map, path): dimension, count, the flat vector
\* array and the id array.
write_index(im) ==
    [exists |-> TRUE, valid |-> TRUE,
     data |-> [d |-> dimension, ntotal |-> ntotal(im), xb |-> Flatten(im.xb), ids |-> im.ids]]

\* faiss.read_index(path)
read_index(f) ==
    [xb |-> Unflatten(f.data.xb, f.data.d, f.data.ntotal), ids |-> f.data.ids]

\* json.dump({"metadata": {str(k): v ...}, "next_id": self._next_id}, f)
json_dump(md, nid) ==
    [exists |-> TRUE, valid |-> TRUE,
     data |-> [metadata |-> [s \in {str(k) : k \in DOMAIN md} |-> md[int(s)]],
               next_id |-> nid]]

\* {int(k): v for k, v in data.get("metadata", {}).items()}
json_load_metadata(f) == [k \in {int(s) : s \in DOMAIN f.data.metadata} |-> f.data.metadata[str(k)]]

\* As json_load_next_id, reading a key the file does not have.
json_load_next_id_default(f) == 0

\* data.get("next_id", 0)
json_load_next_id(f) == f.data.next_id

-----------------------------------------------------------------------------
(* FAISSRetriever.  st is the object's state [id_map, metadata, next_id];  *)
(* dk is the index directory [indexFile, metadataFile].                    *)

\* How far a call of _save gets.  "done": both files written.  "none": nothing
\* written (faiss.write_index cannot open its file).  "index_torn": write_index
\* is cut short.  "index_only": faiss.index is written and metadata.json is not
\* opened.  "metadata_torn": faiss.index is written and json.dump is cut short
\* (open(..., 'w') has truncated metadata.json).
SaveStages == {"done", "none", "index_torn", "index_only", "metadata_torn"}

FailedStages == SaveStages \ {"done"}

\* _save, reaching stage.
save(st, dk, stage) ==
    [indexFile |->
        IF stage = "none" THEN dk.indexFile
        ELSE IF stage = "index_torn" THEN TornIndexFile
        ELSE write_index(st.id_map),
     metadataFile |->
        IF stage = "done" THEN json_dump(st.metadata, st.next_id)
        ELSE IF stage = "metadata_torn" THEN TornMetadataFile
        ELSE dk.metadataFile]

\* __init__ before _load.
NewStore == [id_map |-> EmptyIndex, metadata |-> <<>>, next_id |-> 0]

\* _load raises: a file exists and cannot be read back.
load_raises(dk) ==
    \/ dk.indexFile.exists /\ ~dk.indexFile.valid
    \/ dk.metadataFile.exists /\ ~dk.metadataFile.valid

\* As load, reading the index file only.
load_index_only(dk) ==
    [id_map |-> IF dk.indexFile.exists THEN read_index(dk.indexFile) ELSE EmptyIndex,
     metadata |-> NewStore.metadata,
     next_id |-> NewStore.next_id]

\* __init__ and _load.
load(dk) ==
    [id_map |-> IF dk.indexFile.exists THEN read_index(dk.indexFile) ELSE EmptyIndex,
     metadata |-> IF dk.metadataFile.exists THEN json_load_metadata(dk.metadataFile)
                  ELSE NewStore.metadata,
     next_id |-> IF dk.metadataFile.exists THEN json_load_next_id(dk.metadataFile)
                 ELSE NewStore.next_id]

\* {**a, **b}
Merge(a, b) == [f \in DOMAIN a \cup DOMAIN b |-> IF f \in DOMAIN b THEN b[f] ELSE a[f]]

\* d[k] = v
DictSet(d, k, v) == [x \in DOMAIN d \cup {k} |-> IF x = k THEN v ELSE d[x]]

\* del d[k]
DictDel(d, k) == [x \in DOMAIN d \ {k} |-> d[x]]

\* The outcome of a call that ends without reaching _save.
Early(st, dk, outcome, ret) ==
    [st |-> st, dk |-> dk, outcome |-> outcome, ret |-> ret, saved |-> None]

\* The outcome of a call that ends with _save: the object, the files, whether it
\* returned or raised, what it returned, and (for the history) the state the
\* last completed _save of the call wrote.
Outcome(st, dk, stage, ret) ==
    [st |-> st, dk |-> dk,
     outcome |-> IF stage = "done" THEN "returned" ELSE "raised",
     ret |-> IF stage = "done" THEN ret ELSE None,
     saved |-> IF stage = "done" THEN Some(st) ELSE None]

\* As add, a vector of another length cut or padded with zeros to the
\* dimension of the index.
add_resizing(st, dk, embedding, document_id, text, label, span_start, span_end, extra_metadata, stage) ==
    LET exemplar_id == st.next_id
        resized == [j \in 1..dimension |-> IF j <= Len(embedding) THEN embedding[j] ELSE 0]
        st2 == [st EXCEPT
                  !.next_id = exemplar_id + 1,
                  !.id_map = add_with_ids(st.id_map, resized, exemplar_id),
                  !.metadata = DictSet(st.metadata, exemplar_id,
                      Merge([document_id |-> document_id, text |-> text, label |-> label,
                             span_start |-> span_start, span_end |-> span_end],
                            extra_metadata))]
    IN  Outcome(st2, save(st2, dk, stage), stage, Some(exemplar_id))

\* add.  A vector of another length fails the assertion of add_with_ids, after
\* the counter was advanced.
add(st, dk, embedding, document_id, text, label, span_start, span_end, extra_metadata, stage) ==
    LET exemplar_id == st.next_id
        st1 == [st EXCEPT !.next_id = exemplar_id + 1]
        st2 == [st1 EXCEPT
                  !.id_map = add_with_ids(st.id_map, embedding, exemplar_id),
                  !.metadata = DictSet(st.metadata, exemplar_id,
                      Merge([document_id |-> document_id, text |-> text, label |-> label,
                             span_start |-> span_start, span_end |-> span_end],
                            extra_metadata))]
    IN  IF Len(embedding) # dimension
        THEN Early(st1, dk, "raised", None)
        ELSE Outcome(st2, save(st2, dk, stage), stage, Some(exemplar_id))

\* get
get(st, exemplar_id) ==
    IF exemplar_id \in DOMAIN st.metadata THEN Some(st.metadata[exemplar_id]) ELSE None

\* count
count(st) == ntotal(st.id_map)

\* As remove, with remove_ids raising and the exception swallowed: the vector
\* stays in the index.
remove_keeps_vector(st, dk, exemplar_id, stage) ==
    IF exemplar_id \notin DOMAIN st.metadata
    THEN Early(st, dk, "returned", Some(FALSE))
    ELSE LET st2 == [st EXCEPT !.metadata = DictDel(st.metadata, exemplar_id)]
         IN  Outcome(st2, save(st2, dk, stage), stage, Some(TRUE))

\* As remove, without the test for an absent id.
remove_unchecked(st, dk, exemplar_id, stage) ==
    LET st2 == [st EXCEPT !.id_map = remove_ids(st.id_map, exemplar_id),
                          !.metadata = DictDel(st.metadata, exemplar_id)]
    IN  Outcome(st2, save(st2, dk, stage), stage, Some(TRUE))

\* remove.  remove_ids of an IndexIDMap over a flat index does not raise, so the
\* except branch is not taken.
remove(st, dk, exemplar_id, stage) ==
    IF exemplar_id \notin DOMAIN st.metadata
    THEN Early(st, dk, "returned", Some(FALSE))
    ELSE LET st2 == [st EXCEPT !.id_map = remove_ids(st.id_map, exemplar_id),
                               !.metadata = DictDel(st.metadata, exemplar_id)]
         IN  Outcome(st2, save(st2, dk, stage), stage, Some(TRUE))

RECURSIVE Ascending(_)
\* The ints of S in ascending order: the insertion order of the metadata dict,
\* whose keys come from the counter.
Ascending(S) ==
    IF S = {} THEN <<>>
    ELSE LET m == CHOOSE x \in S : \A y \in S : x <= y
         IN  <<m>> \o Ascending(S \ {m})

\* As to_remove, matching on the text alone.
to_remove_by_text(st, text, label) ==
    Ascending({eid \in DOMAIN st.metadata : st.metadata[eid].text = text})

\* The ids remove_by_text_and_label collects.
to_remove(st, text, label) ==
    Ascending({eid \in DOMAIN st.metadata :
                  st.metadata[eid].text = text /\ st.metadata[eid].label = label})

RECURSIVE remove_each(_, _, _, _, _, _, _)
\* for eid in to_remove: self.remove(eid), from the i-th on; the _save of the
\* fail_at-th remove reaches stage, the others are done.
remove_each(st, dk, ids, i, fail_at, stage, n) ==
    IF i > Len(ids)
    THEN [Early(st, dk, "returned", Some(n)) EXCEPT !.saved = IF i > 1 THEN Some(st) ELSE None]
    ELSE LET r == remove(st, dk, ids[i], IF i = fail_at THEN stage ELSE "done")
         IN  IF r.outcome = "raised"
             THEN [r EXCEPT !.saved = IF i > 1 THEN Some(st) ELSE None]
             ELSE remove_each(r.st, r.dk, ids, i + 1, fail_at, stage, n)

\* remove_by_text_and_label
remove_by_text_and_label(st, dk, text, label, fail_at, stage) ==
    LET ids == to_remove(st, text, label)
    IN  remove_each(st, dk, ids, 1, fail_at, stage, Len(ids))

\* metadata.get("label") of self.metadata.get(idx, {})
label_of(st, idx) == IF idx \in DOMAIN st.metadata THEN Some(st.metadata[idx].label) ELSE None

\* self.metadata.get(idx, {})
metadata_or_empty(st, idx) == IF idx \in DOMAIN st.metadata THEN st.metadata[idx] ELSE <<>>

RECURSIVE collect_unfiltered(_, _, _, _, _)
\* As collect, without the test of the label.
collect_unfiltered(st, hits, k, label_filter, results) ==
    IF hits = <<>> THEN results
    ELSE LET kept == Append(results, [id |-> Head(hits).id, score |-> Head(hits).score,
                                      metadata |-> metadata_or_empty(st, Head(hits).id)])
         IN  IF Len(kept) >= k THEN kept
             ELSE collect_unfiltered(st, Tail(hits), k, label_filter, kept)

RECURSIVE collect(_, _, _, _, _)
\* The loop of search over the FAISS hits, results being those kept so far.
collect(st, hits, k, label_filter, results) ==
    IF hits = <<>> THEN results
    ELSE IF Truthy(label_filter) /\ label_of(st, Head(hits).id) # label_filter
         THEN collect(st, Tail(hits), k, label_filter, results)
    ELSE LET kept == Append(results, [id |-> Head(hits).id, score |-> Head(hits).score,
                                      metadata |-> metadata_or_empty(st, Head(hits).id)])
         IN  IF Len(kept) >= k THEN kept
             ELSE collect(st, Tail(hits), k, label_filter, kept)

\* As search_k, asking for k neighbours with a label filter too.
search_k_exact(st, k, label_filter) == Min(k, ntotal(st.id_map))

\* The number of neighbours search asks FAISS for.
search_k(st, k, label_filter) ==
    Min(IF Truthy(label_filter) THEN k * 3 ELSE k, ntotal(st.id_map))

\* As search, without the test for an empty index: FAISS pads the k hits it was
\* asked for with id -1, and the loop keeps them.
search_padded(st, query_embedding, k, label_filter) ==
    IF ntotal(st.id_map) = 0
    THEN [i \in 1..k |-> [id |-> -1, score |-> 0, metadata |-> <<>>]]
    ELSE collect(st, index_search(st.id_map, query_embedding, search_k(st, k, label_filter)),
                 k, label_filter, <<>>)

\* search
search(st, query_embedding, k, label_filter) ==
    IF ntotal(st.id_map) = 0 THEN <<>>
    ELSE collect(st, index_search(st.id_map, query_embedding, search_k(st, k, label_filter)),
                 k, label_filter, <<>>)

-----------------------------------------------------------------------------
(* Numbers of the StyleScorer.  A float32 is scaled down to a fixed-point    *)
(* number with FracBits binary places: the integer m stands for m / Scale,  *)
(* and the result of a division is rounded to the nearest such number, ties  *)
(* to even, as IEEE 754 rounds.  Python floats (float64) are exact here.     *)

Scale == 2 ^ FracBits

\* 1.0
One == Scale

\* 0.5
Half == Scale \div 2

Abs(x) == IF x < 0 THEN -x ELSE x

\* a / b for b > 0, rounded to the nearest integer, ties to even.
RoundDiv(a, b) ==
    LET q == a \div b
        r == a % b
    IN  IF 2 * r > b \/ (2 * r = b /\ q % 2 = 1) THEN q + 1 ELSE q

\* np.dot of two float32 vectors.
FDot(a, b) == RoundDiv(Dot(a, b), Scale)

RECURSIVE Sum(_)
Sum(s) == IF s = <<>> THEN 0 ELSE Head(s) + Sum(Tail(s))

\* float(np.mean(similarities)) of a non-empty list of float32.
FMean(s) == RoundDiv(Sum(s), Len(s))

\* s[-n:]
LastN(s, n) == IF Len(s) <= n THEN s ELSE SubSeq(s, Len(s) - n + 1, Len(s))

\* What the embedding service returns for the structured text of an annotation:
\* 1.0 on the axis of the label for the text "Apple", 0.5 on the first two axes
\* for any other text.
StyleVector(text, label) ==
    LET axis == IF label = "PER" THEN 1 ELSE 2
    IN  IF text = "Apple" THEN [j \in 1..dimension |-> IF j = axis THEN One ELSE 0]
        ELSE [j \in 1..dimension |-> IF j <= 2 THEN Half ELSE 0]

StyleEmbeddings == {StyleVector(text, label) : text \in Texts, label \in Labels}

Annotators == {"ann1", "ann2"}

\* Optional[str] annotator ids of requests.
AnnotatorIds == {None, Some("")} \cup {Some(a) : a \in Annotators}

-----------------------------------------------------------------------------
(* The two files of the StyleScorer *)

\* The decimal numeral json.dump writes for a float: whole part and the
\* FracBits digits after the point (m / 2^FracBits = m * 5^FracBits / 10^FracBits).
float_repr(m) == [whole |-> m \div Scale, frac |-> (m % Scale) * 5 ^ FracBits]

\* The float32 that np.array(..., dtype=np.float32) makes of a parsed numeral.
float_parse(d) == d.whole * Scale + d.frac \div 5 ^ FracBits

\* v.tolist() written by json.dump
tolist(v) == [i \in DOMAIN v |-> float_repr(v[i])]

\* np.array(v, dtype=np.float32) of a list read by json.load
np_array(l) == [i \in DOMAIN l |-> float_parse(l[i])]

AbsentStyleFile == [exists |-> FALSE, data |-> <<>>]

\* json.dump(centroids_data, f)
dump_centroids(sc) ==
    [exists |-> TRUE,
     data |-> [k \in DOMAIN sc.label_centroids |->
                  [centroid |-> tolist(sc.label_centroids[k]),
                   count |-> IF k \in DOMAIN sc.label_counts THEN sc.label_counts[k] ELSE 0]]]

\* json.dump(profiles_data, f): the last SavedCapacity entries of each history.
dump_profiles(sc) ==
    [exists |-> TRUE,
     data |-> [k \in DOMAIN sc.annotator_profiles |->
                  LET es == LastN(sc.annotator_profiles[k].embeddings, SavedCapacity)
                  IN  [embeddings |-> [i \in DOMAIN es |-> tolist(es[i])],
                       labels |-> LastN(sc.annotator_profiles[k].labels, SavedCapacity)]]]

-----------------------------------------------------------------------------
(* StyleScorer.  sc is the object's state [label_centroids, label_counts,    *)
(* annotator_profiles]; sf is its two files [centroidsFile, profilesFile].   *)

\* __init__ before _load.
NewScorer == [label_centroids |-> <<>>, label_counts |-> <<>>, annotator_profiles |-> <<>>]

\* _save
style_save(sc) == [centroidsFile |-> dump_centroids(sc), profilesFile |-> dump_profiles(sc)]

\* __init__ and _load.
style_load(sf) ==
    [label_centroids |->
        IF sf.centroidsFile.exists
        THEN [k \in DOMAIN sf.centroidsFile.data |-> np_array(sf.centroidsFile.data[k].centroid)]
        ELSE NewScorer.label_centroids,
     label_counts |->
        IF sf.centroidsFile.exists
        THEN [k \in DOMAIN sf.centroidsFile.data |-> sf.centroidsFile.data[k].count]
        ELSE NewScorer.label_counts,
     annotator_profiles |->
        IF sf.profilesFile.exists
        THEN [k \in DOMAIN sf.profilesFile.data |->
                 [embeddings |-> [i \in DOMAIN sf.profilesFile.data[k].embeddings |->
                                     np_array(sf.profilesFile.data[k].embeddings[i])],
                  labels |-> sf.profilesFile.data[k].labels]]
        ELSE NewScorer.annotator_profiles]

\* create_annotation_embedding: the embedding of the structured text.  The
\* context and the rationale are empty in the calls of the model.
create_annotation_embedding(text, label, context, rationale) == StyleVector(text, label)

\* (old_centroid * count + embedding) / (count + 1), componentwise in float32.
online_mean(old_centroid, n, embedding) ==
    [i \in DOMAIN old_centroid |-> RoundDiv(old_centroid[i] * n + embedding[i], n + 1)]

\* As update_label_centroid, the count of a label seen before left as it was.
update_label_centroid_uncounted(sc, label, embedding) ==
    LET sc2 == IF label \notin DOMAIN sc.label_centroids
               THEN [sc EXCEPT !.label_centroids = DictSet(sc.label_centroids, label, embedding),
                               !.label_counts = DictSet(sc.label_counts, label, 1)]
               ELSE [sc EXCEPT
                       !.label_centroids = DictSet(sc.label_centroids, label,
                           online_mean(sc.label_centroids[label], sc.label_counts[label],
                                       embedding))]
    IN  [sc |-> sc2, sf |-> style_save(sc2)]

\* update_label_centroid
update_label_centroid(sc, label, embedding) ==
    LET sc2 == IF label \notin DOMAIN sc.label_centroids
               THEN [sc EXCEPT !.label_centroids = DictSet(sc.label_centroids, label, embedding),
                               !.label_counts = DictSet(sc.label_counts, label, 1)]
               ELSE [sc EXCEPT
                       !.label_centroids = DictSet(sc.label_centroids, label,
                           online_mean(sc.label_centroids[label], sc.label_counts[label],
                                       embedding)),
                       !.label_counts = DictSet(sc.label_counts, label,
                                                sc.label_counts[label] + 1)]
    IN  [sc |-> sc2, sf |-> style_save(sc2)]

\* The profile of annotator_id, created empty when there is none.
profile_of(sc, annotator_id) ==
    IF annotator_id \in DOMAIN sc.annotator_profiles THEN sc.annotator_profiles[annotator_id]
    ELSE [embeddings |-> <<>>, labels |-> <<>>]

\* As update_annotator_profile, cutting the embeddings only.
update_annotator_profile_labels_kept(sc, annotator_id, embedding, label) ==
    LET profile == profile_of(sc, annotator_id)
        embeddings == Append(profile.embeddings, embedding)
        labels == Append(profile.labels, label)
        sc2 == [sc EXCEPT !.annotator_profiles = DictSet(sc.annotator_profiles, annotator_id,
                   [embeddings |-> LastN(embeddings, ProfileCapacity), labels |-> labels])]
    IN  [sc |-> sc2, sf |-> style_save(sc2)]

\* update_annotator_profile
update_annotator_profile(sc, annotator_id, embedding, label) ==
    LET profile == profile_of(sc, annotator_id)
        embeddings == Append(profile.embeddings, embedding)
        labels == Append(profile.labels, label)
        sc2 == [sc EXCEPT !.annotator_profiles = DictSet(sc.annotator_profiles, annotator_id,
                   IF Len(embeddings) > ProfileCapacity
                   THEN [embeddings |-> LastN(embeddings, ProfileCapacity),
                         labels |-> LastN(labels, ProfileCapacity)]
                   ELSE [embeddings |-> embeddings, labels |-> labels])]
    IN  [sc |-> sc2, sf |-> style_save(sc2)]

\* d.get(k, default)
Get(d, k, default) == IF k \in DOMAIN d THEN d[k] ELSE default

\* compute_content_similarity
compute_content_similarity(candidate_embedding, exemplar_embeddings) ==
    IF exemplar_embeddings = <<>> THEN 0
    ELSE FMean([i \in DOMAIN exemplar_embeddings |->
                   FDot(candidate_embedding, exemplar_embeddings[i])])

\* As compute_label_similarity, returning 0 where there is no centroid.
compute_label_similarity_zero(sc, label, candidate_embedding) ==
    IF label \notin DOMAIN sc.label_centroids THEN 0
    ELSE FDot(candidate_embedding, sc.label_centroids[label])

\* compute_label_similarity
compute_label_similarity(sc, label, candidate_embedding) ==
    IF label \notin DOMAIN sc.label_centroids THEN Half
    ELSE FDot(candidate_embedding, sc.label_centroids[label])

RECURSIVE pooled(_, _, _)
\* The similarities to the last OthersRecent embeddings of each profile of S.
pooled(sc, candidate_embedding, S) ==
    IF S = {} THEN <<>>
    ELSE LET a == CHOOSE x \in S : TRUE
             es == LastN(sc.annotator_profiles[a].embeddings, OthersRecent)
         IN  [i \in DOMAIN es |-> FDot(candidate_embedding, es[i])]
                 \o pooled(sc, candidate_embedding, S \ {a})

\* As compute_style_similarity, over the whole history of the annotator.
compute_style_similarity_whole_history(sc, candidate_embedding, annotator_id) ==
    IF /\ Truthy(annotator_id)
       /\ annotator_id[1] \in DOMAIN sc.annotator_profiles
       /\ sc.annotator_profiles[annotator_id[1]].embeddings # <<>>
    THEN LET es == sc.annotator_profiles[annotator_id[1]].embeddings
         IN  FMean([i \in DOMAIN es |-> FDot(candidate_embedding, es[i])])
    ELSE LET all_similarities ==
                 pooled(sc, candidate_embedding, DOMAIN sc.annotator_profiles)
         IN  IF all_similarities # <<>> THEN FMean(all_similarities) ELSE Half

\* compute_style_similarity
compute_style_similarity(sc, candidate_embedding, annotator_id) ==
    IF /\ Truthy(annotator_id)
       /\ annotator_id[1] \in DOMAIN sc.annotator_profiles
       /\ sc.annotator_profiles[annotator_id[1]].embeddings # <<>>
    THEN LET es == LastN(sc.annotator_profiles[annotator_id[1]].embeddings, OwnRecent)
         IN  FMean([i \in DOMAIN es |-> FDot(candidate_embedding, es[i])])
    ELSE LET all_similarities ==
                 pooled(sc, candidate_embedding, DOMAIN sc.annotator_profiles)
         IN  IF all_similarities # <<>> THEN FMean(all_similarities) ELSE Half

\* The default weights (0.4, 0.3, 0.3), in tenths.
Weights == <<4, 3, 3>>

\* As score_suggestion, combining with the default weights whatever the weights
\* of the call.
score_suggestion_default_weights(sc, text, label, context, rationale, exemplar_embeddings, annotator_id, weights) ==
    LET candidate_embedding == create_annotation_embedding(text, label, context, rationale)
        content_sim == compute_content_similarity(candidate_embedding, exemplar_embeddings)
        label_sim == compute_label_similarity(sc, label, candidate_embedding)
        style_sim == compute_style_similarity(sc, candidate_embedding, annotator_id)
    IN  [content_similarity |-> content_sim,
         label_similarity |-> label_sim,
         style_similarity |-> style_sim,
         combined_score |-> content_sim * Weights[1] + label_sim * Weights[2]
                                + style_sim * Weights[3],
         weights |-> [content |-> weights[1], label |-> weights[2], style |-> weights[3]]]

\* score_suggestion.  The similarities are fixed-point numbers; the combined
\* score is a Python float, kept exact in tenths of them.
score_suggestion(sc, text, label, context, rationale, exemplar_embeddings, annotator_id, weights) ==
    LET candidate_embedding == create_annotation_embedding(text, label, context, rationale)
        content_sim == compute_content_similarity(candidate_embedding, exemplar_embeddings)
        label_sim == compute_label_similarity(sc, label, candidate_embedding)
        style_sim == compute_style_similarity(sc, candidate_embedding, annotator_id)
    IN  [content_similarity |-> content_sim,
         label_similarity |-> label_sim,
         style_similarity |-> style_sim,
         combined_score |-> content_sim * weights[1] + label_sim * weights[2]
                                + style_sim * weights[3],
         weights |-> [content |-> weights[1], label |-> weights[2], style |-> weights[3]]]

\* {**suggestion, "style_scores": scores, "confidence": scores["combined_score"]}
scored(sc, suggestion, context, exemplar_embeddings, annotator_id) ==
    LET scores == score_suggestion(sc, Get(suggestion, "text", ""), Get(suggestion, "label", ""),
                                   context, Get(suggestion, "rationale", ""),
                                   exemplar_embeddings, annotator_id, Weights)
    IN  Merge(suggestion, [style_scores |-> scores, confidence |-> scores.combined_score])

RECURSIVE insert_descending(_, _)
\* x put into the descending list s behind every entry that scores no less.
insert_descending(s, x) ==
    IF s = <<>> THEN <<x>>
    ELSE IF Head(s).style_scores.combined_score >= x.style_scores.combined_score
         THEN <<Head(s)>> \o insert_descending(Tail(s), x)
    ELSE <<x>> \o s

RECURSIVE sort_descending(_, _)
\* list.sort(key=combined_score, reverse=True): the entries of s put one by one
\* into sorted.  Stable: equal scores keep their order.
sort_descending(s, sorted) ==
    IF s = <<>> THEN sorted
    ELSE sort_descending(Tail(s), insert_descending(sorted, Head(s)))

Reverse(s) == [i \in DOMAIN s |-> s[Len(s) + 1 - i]]

\* As rank_suggestions, sorting ascending and reversing the list.
rank_suggestions_reversed(sc, suggestions, context, exemplar_embeddings, annotator_id) ==
    LET scored_suggestions ==
            [i \in DOMAIN suggestions |->
                scored(sc, suggestions[i], context, exemplar_embeddings, annotator_id)]
    IN  sort_descending(Reverse(scored_suggestions), <<>>)

\* rank_suggestions
rank_suggestions(sc, suggestions, context, exemplar_embeddings, annotator_id) ==
    LET scored_suggestions ==
            [i \in DOMAIN suggestions |->
                scored(sc, suggestions[i], context, exemplar_embeddings, annotator_id)]
    IN  sort_descending(scored_suggestions, <<>>)

RECURSIVE tracked(_, _)
\* sum(len(p["embeddings"]) for p in the profiles of S)
tracked(sc, S) ==
    IF S = {} THEN 0
    ELSE LET a == CHOOSE x \in S : TRUE
         IN  Len(sc.annotator_profiles[a].embeddings) + tracked(sc, S \ {a})

\* get_stats; the dicts in the order of their keys.
get_stats(sc) ==
    [labels_tracked |-> DOMAIN sc.label_centroids,
     label_counts |-> sc.label_counts,
     annotators_tracked |-> DOMAIN sc.annotator_profiles,
     total_annotations_tracked |-> tracked(sc, DOMAIN sc.annotator_profiles)]

-----------------------------------------------------------------------------
(* The service: AnnotationSuggester and the endpoints of main.py.  app is    *)
(* [st, dk, sc, sf]: the retriever, its files, the scorer, its files.        *)

\* embed_single of a plain text.
embed_single(text) ==
    IF text = "Apple" THEN [j \in 1..dimension |-> IF j = 1 THEN One ELSE 0]
    ELSE [j \in 1..dimension |-> IF j <= 2 THEN Half ELSE 0]

\* annotator_id or "default"
or_default(annotator_id) == IF Truthy(annotator_id) THEN annotator_id[1] ELSE "default"

\* As add_exemplar, the profile of "default" updated when no annotator id is
\* given.
add_exemplar_default_profile(app, document_id, text, label, span_start, span_end, context, rationale, annotator_id) ==
    LET content_embedding == embed_single(text)
        style_embedding == create_annotation_embedding(text, label, context, rationale)
        r == add(app.st, app.dk, content_embedding, document_id, text, label, span_start,
                 span_end,
                 [context |-> context, rationale |-> rationale,
                  annotator_id |-> or_default(annotator_id)],
                 "done")
        u == update_label_centroid(app.sc, label, style_embedding)
        v == update_annotator_profile(u.sc, or_default(annotator_id), style_embedding, label)
    IN  [app |-> [st |-> r.st, dk |-> r.dk, sc |-> v.sc, sf |-> v.sf],
         r |-> r,
         ret |-> [exemplar_id |-> r.ret[1],
                  total_exemplars |-> count(r.st),
                  label_count |-> Get(v.sc.label_counts, label, 0),
                  style_stats |-> get_stats(v.sc)]]

\* AnnotationSuggester.add_exemplar, every _save completing.  The context is
\* empty in the calls of the model, so the text alone is embedded.
add_exemplar(app, document_id, text, label, span_start, span_end, context, rationale, annotator_id) ==
    LET content_embedding == embed_single(text)
        style_embedding == create_annotation_embedding(text, label, context, rationale)
        r == add(app.st, app.dk, content_embedding, document_id, text, label, span_start,
                 span_end,
                 [context |-> context, rationale |-> rationale,
                  annotator_id |-> or_default(annotator_id)],
                 "done")
        u == update_label_centroid(app.sc, label, style_embedding)
        v == IF Truthy(annotator_id)
             THEN update_annotator_profile(u.sc, annotator_id[1], style_embedding, label)
             ELSE u
    IN  [app |-> [st |-> r.st, dk |-> r.dk, sc |-> v.sc, sf |-> v.sf],
         r |-> r,
         ret |-> [exemplar_id |-> r.ret[1],
                  total_exemplars |-> count(r.st),
                  label_count |-> Get(v.sc.label_counts, label, 0),
                  style_stats |-> get_stats(v.sc)]]

\* As delete_exemplar, the centroid and the count of a label dropped with the
\* last exemplar of the label.
delete_exemplar_correcting(app, text, label) ==
    LET r == remove_by_text_and_label(app.st, app.dk, text, label, 0, "done")
        gone == \A eid \in DOMAIN r.st.metadata : r.st.metadata[eid].label # label
        sc2 == IF gone /\ label \in DOMAIN app.sc.label_centroids
               THEN [app.sc EXCEPT !.label_centroids = DictDel(app.sc.label_centroids, label),
                                   !.label_counts = DictDel(app.sc.label_counts, label)]
               ELSE app.sc
    IN  [app |-> [st |-> r.st, dk |-> r.dk, sc |-> sc2, sf |-> style_save(sc2)],
         r |-> r,
         ret |-> [removed_count |-> r.ret[1], total_exemplars |-> count(r.st)]]

\* The endpoint delete_exemplar.
delete_exemplar(app, text, label) ==
    LET r == remove_by_text_and_label(app.st, app.dk, text, label, 0, "done")
    IN  [app |-> [app EXCEPT !.st = r.st, !.dk = r.dk],
         r |-> r,
         ret |-> [removed_count |-> r.ret[1], total_exemplars |-> count(r.st)]]

\* get_all_labels
get_all_labels(st) == {st.metadata[eid].label : eid \in DOMAIN st.metadata}

\* AnnotationSuggester.get_stats, without the name of the embedding model.
suggester_get_stats(app) ==
    [retriever |-> [total_exemplars |-> count(app.st),
                    labels_in_index |-> get_all_labels(app.st)],
     style_scorer |-> get_stats(app.sc)]

\* The embeddings of the structured texts of the exemplars search returned.
embeddings_of(results) ==
    [i \in DOMAIN results |->
        StyleVector(Get(results[i].metadata, "text", ""), Get(results[i].metadata, "label", ""))]

\* What parse_json_response returns: a list of objects, one object, or
\* something else.
ParsedList(items) == [kind |-> "list", items |-> items]

ParsedDict(item) == [kind |-> "dict", item |-> item]

ParsedOther == [kind |-> "other"]

\* isinstance(item, dict) of an element of a parsed list: the elements that are
\* not objects are kept as ParsedOther.
IsDict(item) == "kind" \notin DOMAIN item

\* The suggestions suggest makes of the parsed response; the default
\* confidence is 0.7.
suggestions_of(parsed) ==
    IF parsed.kind = "list"
    THEN LET items == SelectSeq(parsed.items, IsDict)
         IN  [i \in DOMAIN items |->
                 [text |-> Get(items[i], "text", ""),
                  label |-> Get(items[i], "label", ""),
                  span_start |-> Get(items[i], "start", 0),
                  span_end |-> Get(items[i], "end", 0),
                  confidence |-> Get(items[i], "confidence", 7 * Scale),
                  rationale |-> Get(items[i], "rationale", ""),
                  source |-> "ai"]]
    ELSE IF parsed.kind = "dict"
    THEN <<[label |-> Get(parsed.item, "label", ""),
            confidence |-> Get(parsed.item, "confidence", 7 * Scale),
            rationale |-> Get(parsed.item, "rationale", ""),
            source |-> "ai"]>>
    ELSE <<>>

\* As Avg, of the first of the similarities alone.
Avg_of_first(sims) ==
    [sum |-> IF sims = <<>> THEN 0 ELSE sims[1], of |-> IF sims = <<>> THEN 0 ELSE 1]

\* sum(sims) / len(sims), as the two numbers.
Avg(sims) == [sum |-> Sum(sims), of |-> Len(sims)]

\* The steps of suggest: embedding the text, retrieving exemplars, building the
\* prompt, calling the language model, parsing and ranking.
SuggestSteps == {"embed", "retrieve", "prompt", "llm", "rank"}

\* How a call of suggest ends early: a step raises, or the caller abandons the
\* call in it.
Stops == {[step |-> step, how |-> how] : step \in SuggestSteps, how \in {"raised", "abandoned"}}

\* As suggest, the first suggestion recorded as an observation of its label.
suggest_learning(a, text, top_k, annotator_id, enable_style_ranking, parsed, stop) ==
    LET suggestions == suggestions_of(parsed)
        u == IF suggestions = <<>> THEN [sc |-> a.sc, sf |-> a.sf]
             ELSE update_label_centroid(a.sc, suggestions[1].label,
                      create_annotation_embedding(Get(suggestions[1], "text", ""),
                                                  suggestions[1].label, text, ""))
    IN  [app |-> [a EXCEPT !.sc = u.sc, !.sf = u.sf],
         outcome |-> IF stop = None THEN "returned" ELSE stop[1].how,
         ret |-> None]

\* AnnotationSuggester.suggest.  parsed is what the language model's answer
\* parses to; stop, when given, is where the call ends early.
suggest(a, text, top_k, annotator_id, enable_style_ranking, parsed, stop) ==
    LET query_embedding == embed_single(text)
        results == IF count(a.st) > 0 THEN search(a.st, query_embedding, top_k, None)
                   ELSE <<>>
        exemplars == [i \in DOMAIN results |->
                         Merge(results[i].metadata, [retrieval_score |-> results[i].score])]
        exemplar_embeddings == embeddings_of(results)
        suggestions == suggestions_of(parsed)
        ranking == enable_style_ranking /\ suggestions # <<>>
        ranked == IF ranking
                  THEN rank_suggestions(a.sc, suggestions, text, exemplar_embeddings,
                                        annotator_id)
                  ELSE suggestions
        style_stats ==
            [enabled |-> enable_style_ranking,
             annotator_id |-> annotator_id,
             avg_content_similarity |->
                IF ranking
                THEN Avg([i \in DOMAIN ranked |-> ranked[i].style_scores.content_similarity])
                ELSE Avg(<<>>),
             avg_label_similarity |->
                IF ranking
                THEN Avg([i \in DOMAIN ranked |-> ranked[i].style_scores.label_similarity])
                ELSE Avg(<<>>),
             avg_style_similarity |->
                IF ranking
                THEN Avg([i \in DOMAIN ranked |-> ranked[i].style_scores.style_similarity])
                ELSE Avg(<<>>)]
    IN  IF stop # None
        THEN [app |-> a, outcome |-> stop[1].how, ret |-> None]
        ELSE [app |-> a, outcome |-> "returned",
              ret |-> Some([suggestions |-> ranked,
                            exemplars_used |-> Len(exemplars),
                            exemplars |-> [i \in DOMAIN exemplars |->
                                              [text |-> Get(exemplars[i], "text", ""),
                                               label |-> Get(exemplars[i], "label", ""),
                                               score |-> exemplars[i].retrieval_score]],
                            style_ranking |-> style_stats])]

\* The endpoint score_annotation.
score_annotation(a, text, label, context, rationale, annotator_id) ==
    LET query_embedding == embed_single(text)
        results == search(a.st, query_embedding, ScoreTopK, None)
    IN  score_suggestion(a.sc, text, label, context, rationale, embeddings_of(results),
                         annotator_id, Weights)

FileNames == {"faiss.index", "metadata.json", "label_centroids.json", "annotator_profiles.json"}

\* The files of the retriever, those of lost removed.
StoreFilesWithout(dk, lost) ==
    [indexFile |-> IF "faiss.index" \in lost THEN AbsentIndexFile ELSE dk.indexFile,
     metadataFile |-> IF "metadata.json" \in lost THEN AbsentMetadataFile ELSE dk.metadataFile]

\* The files of the scorer, those of lost removed.
StyleFilesWithout(sf, lost) ==
    [centroidsFile |-> IF "label_centroids.json" \in lost THEN AbsentStyleFile
                       ELSE sf.centroidsFile,
     profilesFile |-> IF "annotator_profiles.json" \in lost THEN AbsentStyleFile
                      ELSE sf.profilesFile]

-----------------------------------------------------------------------------
(* The state machine *)

st == [id_map |-> id_map, metadata |-> metadata, next_id |-> next_id]

dk == [indexFile |-> indexFile, metadataFile |-> metadataFile]

\* The state after a call with outcome r that the process survives.
Survive(r) ==
    /\ id_map' = r.st.id_map
    /\ metadata' = r.st.metadata
    /\ next_id' = r.st.next_id
    /\ indexFile' = r.dk.indexFile
    /\ metadataFile' = r.dk.metadataFile
    /\ up' = TRUE

\* The state after the process dies inside a call whose writes got as far as r.dk.
Die(r) ==
    /\ id_map' = NewStore.id_map
    /\ metadata' = NewStore.metadata
    /\ next_id' = NewStore.next_id
    /\ indexFile' = r.dk.indexFile
    /\ metadataFile' = r.dk.metadataFile
    /\ up' = FALSE

\* A _save that fails is counted, and no more than MaxFaults do; a _save that
\* completes is remembered.
Count(r, stage) ==
    /\ stage # "done" => faults < MaxFaults
    /\ faults' = IF stage # "done" THEN faults + 1 ELSE faults
    /\ flushed' = IF r.saved # None THEN r.saved[1] ELSE flushed

\* A call ends: normally or by an exception (the process goes on), or with the
\* process killed inside a _save that did not complete.
End(r, crash) ==
    IF crash /\ r.outcome = "raised" THEN Die(r) ELSE Survive(r)

How(r, crash) == IF crash /\ r.outcome = "raised" THEN "crashed" ELSE r.outcome

Init ==
    /\ id_map = NewStore.id_map
    /\ metadata = NewStore.metadata
    /\ next_id = NewStore.next_id
    /\ indexFile = AbsentIndexFile
    /\ metadataFile = AbsentMetadataFile
    /\ up = TRUE
    /\ last = [op |-> "init", outcome |-> "returned"]
    /\ returned = <<>>
    /\ recovered = FALSE
    /\ faults = 0
    /\ flushed = NewStore
    /\ label_centroids = NewScorer.label_centroids
    /\ label_counts = NewScorer.label_counts
    /\ annotator_profiles = NewScorer.annotator_profiles
    /\ centroidsFile = AbsentStyleFile
    /\ profilesFile = AbsentStyleFile
    /\ observed = <<>>
    /\ arrived = <<>>
    /\ updates = 0
    /\ reloaded = FALSE
    /\ pending = {}
    /\ running = <<>>
    /\ current = None
    /\ removed = 0
    /\ documents = <<>>
    /\ annotations = <<>>
    /\ reachable = TRUE
    /\ origin = <<>>
    /\ issued = {}
    /\ handlers = <<>>

\* One call of add, with the embedding, text and label of one of inputs, its
\* _save reaching one of stages.
DoAdd(inputs, stages, crashes, cap) ==
    \E in \in inputs, document_id \in Docs, stage \in stages, crash \in crashes :
        LET r == add(st, dk, in.embedding, document_id, in.text, in.label, 0, 5,
                     [annotator_id |-> "default"], stage)
        IN  /\ up
            /\ next_id < cap
            /\ Count(r, stage)
            /\ End(r, crash)
            /\ last' = [op |-> "add", embedding |-> in.embedding, text |-> in.text,
                        label |-> in.label, outcome |-> How(r, crash), ret |-> r.ret]
            /\ returned' = IF r.outcome = "returned" THEN Append(returned, r.ret[1])
                           ELSE returned
            /\ UNCHANGED <<recovered, styleVars, requestVars, backendVars>>

\* One call of remove.
DoRemove(stages, crashes) ==
    \E exemplar_id \in 0..MaxId, stage \in stages, crash \in crashes :
        LET r == remove(st, dk, exemplar_id, stage)
        IN  /\ up
            /\ stage # "done" => exemplar_id \in DOMAIN metadata
            /\ Count(r, stage)
            /\ End(r, crash)
            /\ last' = [op |-> "remove", exemplar_id |-> exemplar_id,
                        outcome |-> How(r, crash), ret |-> r.ret]
            /\ UNCHANGED <<returned, recovered, styleVars, requestVars, backendVars>>

\* One call of remove_by_text_and_label; with a failing stage, the _save of one
\* of its removes fails.
DoRemoveBy(stages, crashes) ==
    \E text \in Texts, label \in Labels, stage \in stages, crash \in crashes :
        \E fail_at \in IF stage = "done" THEN {0} ELSE 1..Len(to_remove(st, text, label)) :
            LET r == remove_by_text_and_label(st, dk, text, label, fail_at, stage)
            IN  /\ up
                /\ Count(r, stage)
                /\ End(r, crash)
                /\ last' = [op |-> "remove_by_text_and_label", text |-> text,
                            label |-> label, outcome |-> How(r, crash), ret |-> r.ret]
                /\ UNCHANGED <<returned, recovered, styleVars, requestVars, backendVars>>

\* One call of search.  With k = 0 it is called on an empty store only, where k
\* is not looked at.
DoSearch(queries, filters) ==
    \E query_embedding \in queries, k \in 0..MaxK, label_filter \in filters :
        /\ up
        /\ k = 0 => count(st) = 0
        /\ last' = [op |-> "search", query_embedding |-> query_embedding, k |-> k,
                    label_filter |-> label_filter, outcome |-> "returned",
                    ret |-> search(st, query_embedding, k, label_filter)]
        /\ UNCHANGED <<storeVars, styleVars, requestVars, backendVars>>

Add == DoAdd(Exemplars, {"done"}, {FALSE}, MaxId)

Remove == DoRemove({"done"}, {FALSE})

RemoveByTextAndLabel == DoRemoveBy({"done"}, {FALSE})

Search == DoSearch(Queries, LabelFilters)

\* The process is stopped, if it runs, and started again: a new FAISSRetriever
\* is constructed from the files.  When _load raises, no object comes to exist.
Restart ==
    /\ IF load_raises(dk)
       THEN /\ id_map' = NewStore.id_map
            /\ metadata' = NewStore.metadata
            /\ next_id' = NewStore.next_id
            /\ up' = FALSE
            /\ last' = [op |-> "load", outcome |-> "raised"]
       ELSE /\ id_map' = load(dk).id_map
            /\ metadata' = load(dk).metadata
            /\ next_id' = load(dk).next_id
            /\ up' = TRUE
            /\ last' = [op |-> "load", outcome |-> "returned"]
    /\ recovered' = (recovered \/ faults > 0)
    /\ UNCHANGED <<indexFile, metadataFile, returned, faults, flushed, styleVars,
                   requestVars, backendVars>>

\* Calls whose _save fails: with an exception, or with the process killed.
AddFails == DoAdd(FaultyExemplars, FailedStages, {FALSE, TRUE}, MaxFaultyId)

RemoveFails == DoRemove(FailedStages, {FALSE, TRUE})

RemoveByTextAndLabelFails == DoRemoveBy(FailedStages, {FALSE, TRUE})

\* The store in operation, every write to the files succeeding.
Next == Add \/ Remove \/ RemoveByTextAndLabel \/ Search \/ Restart

Spec == Init /\ [][Next]_vars

\* What add is called with where the vector has another length than the
\* index: one component less, one more.
MismatchedExemplars ==
    {Exemplar([j \in 1..(dimension - 1) |-> 1], "Apple", "ORG"),
     Exemplar([j \in 1..(dimension + 1) |-> 1], "apple", "PER")}

AddMismatched == DoAdd(MismatchedExemplars, {"done"}, {FALSE}, MaxId)

AddSaved == DoAdd(FaultyExemplars, {"done"}, {FALSE}, MaxFaultyId)

\* The store in operation, writes to the files failing and the process dying.
NextFaulty ==
    \/ AddSaved \/ Remove \/ RemoveByTextAndLabel \/ Restart
    \/ AddFails \/ RemoveFails \/ RemoveByTextAndLabelFails

SpecFaulty == Init /\ [][NextFaulty]_vars

\* The store called with vectors of the dimension of the index and of other
\* lengths.
NextDimension == AddSaved \/ AddMismatched \/ Remove \/ Restart

SpecDimension == Init /\ [][NextDimension]_vars

\* Searches over stores of up to MaxSearchId exemplars.
SearchAdd == DoAdd(SearchExemplars, {"done"}, {FALSE}, MaxSearchId)

SearchLarge == DoSearch({Basis(1)}, LabelFilters)

NextSearch == SearchAdd \/ SearchLarge

SpecSearch == Init /\ [][NextSearch]_vars

OverFetchAdd == DoAdd(SearchExemplars, {"done"}, {FALSE}, MaxFetchId)

\* The store searched where the over-fetch is looked at.
NextOverFetch == OverFetchAdd \/ SearchLarge

SpecOverFetch == Init /\ [][NextOverFetch]_vars

-----------------------------------------------------------------------------
(* The StyleScorer alone *)

sc == [label_centroids |-> label_centroids, label_counts |-> label_counts,
       annotator_profiles |-> annotator_profiles]

sf == [centroidsFile |-> centroidsFile, profilesFile |-> profilesFile]

\* The state after a call of the StyleScorer with outcome r.
Scored(r) ==
    /\ label_centroids' = r.sc.label_centroids
    /\ label_counts' = r.sc.label_counts
    /\ annotator_profiles' = r.sc.annotator_profiles
    /\ centroidsFile' = r.sf.centroidsFile
    /\ profilesFile' = r.sf.profilesFile

\* One call of update_label_centroid, with the embedding of an annotation of
\* the label, as add_exemplar calls it.
UpdateLabelCentroid ==
    \E text \in Texts, label \in Labels :
        LET embedding == create_annotation_embedding(text, label, "", "")
        IN  /\ updates < MaxUpdates
            /\ Scored(update_label_centroid(sc, label, embedding))
            /\ observed' = DictSet(observed, label, Append(Get(observed, label, <<>>), embedding))
            /\ updates' = updates + 1
            /\ last' = [op |-> "update_label_centroid", label |-> label,
                        embedding |-> embedding, outcome |-> "returned"]
            /\ UNCHANGED <<storeVars, arrived, reloaded, requestVars, backendVars>>

\* One call of update_annotator_profile.
UpdateAnnotatorProfile ==
    \E annotator_id \in Annotators, text \in Texts, label \in Labels :
        LET embedding == create_annotation_embedding(text, label, "", "")
        IN  /\ updates < MaxUpdates
            /\ Scored(update_annotator_profile(sc, annotator_id, embedding, label))
            /\ arrived' = DictSet(arrived, annotator_id,
                              Append(Get(arrived, annotator_id, <<>>),
                                     [embedding |-> embedding, label |-> label]))
            /\ updates' = updates + 1
            /\ last' = [op |-> "update_annotator_profile", annotator_id |-> annotator_id,
                        embedding |-> embedding, label |-> label, outcome |-> "returned"]
            /\ UNCHANGED <<storeVars, observed, reloaded, requestVars, backendVars>>

\* The process is stopped and started again: a new StyleScorer is constructed
\* from the two files.
RestartStyle ==
    /\ label_centroids' = style_load(sf).label_centroids
    /\ label_counts' = style_load(sf).label_counts
    /\ annotator_profiles' = style_load(sf).annotator_profiles
    /\ reloaded' = TRUE
    /\ last' = [op |-> "style_load", outcome |-> "returned", before |-> sc]
    /\ UNCHANGED <<storeVars, centroidsFile, profilesFile, observed, arrived, updates,
                   requestVars, backendVars>>

\* The unit vector along axis i, as float32.
Unit(i) == [j \in 1..dimension |-> IF j = i THEN One ELSE 0]

\* One call of update_label_centroid with a unit vector along one of the first
\* two axes.
ObserveUnit ==
    \E label \in Labels, i \in 1..2 :
        /\ updates < MaxUpdates
        /\ Scored(update_label_centroid(sc, label, Unit(i)))
        /\ observed' = DictSet(observed, label, Append(Get(observed, label, <<>>), Unit(i)))
        /\ updates' = updates + 1
        /\ last' = [op |-> "update_label_centroid", label |-> label, embedding |-> Unit(i),
                    outcome |-> "returned"]
        /\ UNCHANGED <<storeVars, arrived, reloaded, requestVars, backendVars>>

\* One call of compute_label_similarity, with a unit vector or with the stored
\* centroid of a label as the candidate.
LabelSimilarity ==
    \E label \in Labels,
       candidate \in {Unit(1), Unit(2)} \cup Range(label_centroids) :
        /\ last' = [op |-> "compute_label_similarity", label |-> label,
                    candidate |-> candidate, outcome |-> "returned",
                    ret |-> compute_label_similarity(sc, label, candidate)]
        /\ UNCHANGED <<storeVars, styleVars, requestVars, backendVars>>

NextCentroid == ObserveUnit \/ LabelSimilarity

SpecCentroid == Init /\ [][NextCentroid]_vars

NextStyle == UpdateLabelCentroid \/ UpdateAnnotatorProfile \/ RestartStyle

SpecStyle == Init /\ [][NextStyle]_vars

\* The longest history of one annotator in the profiles the scorer starts with:
\* one more than the OwnRecent embeddings of the longer window.
MaxHistory == 11

\* A history of older observations of ("Apple", "PER") followed by recent
\* observations of ("Apple", "ORG"), as update_annotator_profile leaves it.
History(older, recent) ==
    [embeddings |-> [i \in 1..(older + recent) |->
                        IF i <= older THEN StyleVector("Apple", "PER")
                        ELSE StyleVector("Apple", "ORG")],
     labels |-> [i \in 1..(older + recent) |-> IF i <= older THEN "PER" ELSE "ORG"]]

\* The most observations of ("Apple", "PER") at the start of a history.
MaxOlder == 3

Histories ==
    {History(older, recent) : older \in 0..MaxOlder, recent \in 0..MaxHistory}

\* The annotator_profiles of a scorer that has been in use: each annotator has
\* no profile or a history of at most MaxHistory observations (the profile of
\* the program holds up to 100).
UsedProfiles ==
    {[a \in {x \in Annotators : Len(h[x].embeddings) > 0} |-> h[a]] :
        h \in [Annotators -> {g \in Histories : Len(g.embeddings) <= MaxHistory}]}

\* A scorer that has been in use, before a call of compute_style_similarity.
InitWindow ==
    /\ id_map = NewStore.id_map
    /\ metadata = NewStore.metadata
    /\ next_id = NewStore.next_id
    /\ indexFile = AbsentIndexFile
    /\ metadataFile = AbsentMetadataFile
    /\ up = TRUE
    /\ last = [op |-> "init", outcome |-> "returned"]
    /\ returned = <<>>
    /\ recovered = FALSE
    /\ faults = 0
    /\ flushed = NewStore
    /\ label_centroids = NewScorer.label_centroids
    /\ label_counts = NewScorer.label_counts
    /\ annotator_profiles \in UsedProfiles
    /\ centroidsFile = AbsentStyleFile
    /\ profilesFile = AbsentStyleFile
    /\ observed = <<>>
    /\ arrived = <<>>
    /\ updates = 0
    /\ reloaded = FALSE
    /\ pending = {}
    /\ running = <<>>
    /\ current = None
    /\ removed = 0
    /\ documents = <<>>
    /\ annotations = <<>>
    /\ reachable = TRUE
    /\ origin = <<>>
    /\ issued = {}
    /\ handlers = <<>>

\* One call of compute_style_similarity.
StyleSimilarity ==
    \E candidate_embedding \in StyleEmbeddings, annotator_id \in AnnotatorIds :
        /\ last' = [op |-> "compute_style_similarity",
                    candidate_embedding |-> candidate_embedding,
                    annotator_id |-> annotator_id, outcome |-> "returned",
                    ret |-> compute_style_similarity(
                                [label_centroids |-> label_centroids,
                                 label_counts |-> label_counts,
                                 annotator_profiles |-> annotator_profiles],
                                candidate_embedding, annotator_id)]
        /\ UNCHANGED <<storeVars, styleVars, requestVars, backendVars>>

NextWindow == StyleSimilarity

SpecWindow == InitWindow /\ [][NextWindow]_vars

-----------------------------------------------------------------------------
(* The service *)

app == [st |-> st, dk |-> dk, sc |-> sc, sf |-> sf]

\* What the endpoint add_exemplar is called with.
AppExemplars ==
    {[text |-> "Apple", label |-> "ORG", annotator_id |-> Some("ann1")],
     [text |-> "apple", label |-> "ORG", annotator_id |-> None],
     [text |-> "Apple", label |-> "PER", annotator_id |-> Some("")],
     [text |-> "apple", label |-> "ORG", annotator_id |-> Some("ann2")]}

\* What the endpoint add_exemplar is called with where the read paths are
\* looked at.
ReadExemplars ==
    {[text |-> "Apple", label |-> "ORG", annotator_id |-> Some("ann1")],
     [text |-> "apple", label |-> "ORG", annotator_id |-> None]}

\* One call of the endpoint add_exemplar with one of inputs.
DoAddExemplar(inputs, cap) ==
    \E in \in inputs, document_id \in Docs :
        LET a == add_exemplar(app, document_id, in.text, in.label, 0, 5, "", "",
                              in.annotator_id)
            embedding == create_annotation_embedding(in.text, in.label, "", "")
        IN  /\ up
            /\ next_id < cap
            /\ Count(a.r, "done")
            /\ Survive(a.r)
            /\ Scored(a.app)
            /\ returned' = Append(returned, a.ret.exemplar_id)
            /\ observed' = DictSet(observed, in.label,
                               Append(Get(observed, in.label, <<>>), embedding))
            /\ arrived' = IF Truthy(in.annotator_id)
                           THEN DictSet(arrived, in.annotator_id[1],
                                        Append(Get(arrived, in.annotator_id[1], <<>>),
                                               [embedding |-> embedding, label |-> in.label]))
                           ELSE arrived
            /\ updates' = updates + (IF Truthy(in.annotator_id) THEN 2 ELSE 1)
            /\ last' = [op |-> "add_exemplar", text |-> in.text, label |-> in.label,
                        annotator_id |-> in.annotator_id, outcome |-> "returned",
                        ret |-> a.ret]
            /\ UNCHANGED <<recovered, reloaded, requestVars, backendVars>>

AddExemplar == DoAddExemplar(AppExemplars, MaxAppId)

\* One call of the endpoint delete_exemplar.
DeleteExemplar ==
    \E text \in Texts, label \in Labels :
        LET d == delete_exemplar(app, text, label)
        IN  /\ up
            /\ Count(d.r, "done")
            /\ Survive(d.r)
            /\ Scored(d.app)
            /\ last' = [op |-> "delete_exemplar", text |-> text, label |-> label,
                        outcome |-> "returned", ret |-> d.ret]
            /\ UNCHANGED <<returned, recovered, observed, arrived, updates, reloaded,
                           requestVars, backendVars>>

\* The service is stopped, the files of lost are removed, and the service is
\* started: a new FAISSRetriever and a new StyleScorer are constructed from the
\* files there are.
StartWithout(lost) ==
    LET dk2 == StoreFilesWithout(dk, lost)
        sf2 == StyleFilesWithout(sf, lost)
    IN  /\ ~load_raises(dk2)
        /\ id_map' = load(dk2).id_map
        /\ metadata' = load(dk2).metadata
        /\ next_id' = load(dk2).next_id
        /\ indexFile' = dk2.indexFile
        /\ metadataFile' = dk2.metadataFile
        /\ up' = TRUE
        /\ label_centroids' = style_load(sf2).label_centroids
        /\ label_counts' = style_load(sf2).label_counts
        /\ annotator_profiles' = style_load(sf2).annotator_profiles
        /\ centroidsFile' = sf2.centroidsFile
        /\ profilesFile' = sf2.profilesFile
        /\ recovered' = (recovered \/ faults > 0)
        /\ reloaded' = TRUE
        /\ last' = [op |-> "start", lost |-> lost, outcome |-> "returned"]
        /\ UNCHANGED <<returned, faults, flushed, observed, arrived, updates,
                       requestVars, backendVars>>

\* The service is restarted, its files in place.
RestartService == StartWithout({})

\* The service is started with some of its files missing; this happens once.
StartWithMissing ==
    /\ ~reloaded
    /\ \E lost \in (SUBSET FileNames) \ {{}} : StartWithout(lost)

\* The commit and the delete paths of the service.
NextApp == AddExemplar \/ DeleteExemplar \/ Remove \/ RemoveByTextAndLabel \/ RestartService

SpecApp == Init /\ [][NextApp]_vars

\* One call of add_exemplar in which the _save of the retriever raises: the
\* exception leaves add_exemplar before update_label_centroid is reached.
AddExemplarFails ==
    \E in \in AppExemplars, document_id \in Docs, stage \in FailedStages :
        LET r == add(st, dk, embed_single(in.text), document_id, in.text, in.label, 0, 5,
                     [context |-> "", rationale |-> "",
                      annotator_id |-> or_default(in.annotator_id)],
                     stage)
        IN  /\ up
            /\ next_id < MaxAppId
            /\ Count(r, stage)
            /\ Survive(r)
            /\ last' = [op |-> "add_exemplar", text |-> in.text, label |-> in.label,
                        annotator_id |-> in.annotator_id, outcome |-> r.outcome]
            /\ UNCHANGED <<returned, recovered, styleVars, requestVars, backendVars>>

\* The commits, also those that fail, and the deletions.
NextCover ==
    \/ AddExemplar \/ AddExemplarFails
    \/ DeleteExemplar \/ Remove \/ RemoveByTextAndLabel

SpecCover == Init /\ [][NextCover]_vars

\* The service started with files missing.
NextStartup == AddExemplar \/ StartWithMissing

SpecStartup == Init /\ [][NextStartup]_vars

-----------------------------------------------------------------------------
(* The read paths of the service *)

\* The state after a call that returned the service as a.
Becomes(a) ==
    /\ id_map' = a.st.id_map
    /\ metadata' = a.st.metadata
    /\ next_id' = a.st.next_id
    /\ indexFile' = a.dk.indexFile
    /\ metadataFile' = a.dk.metadataFile
    /\ Scored(a)
    /\ UNCHANGED <<up, returned, recovered, faults, flushed, observed, arrived, updates,
                   reloaded, requestVars, backendVars>>

\* One suggestion of the language model for each of two texts, and a second
\* one for "Apple" that differs in its rationale only.
Candidate(text, label, rationale) ==
    [text |-> text, label |-> label, span_start |-> 0, span_end |-> 5,
     confidence |-> 7 * Scale, rationale |-> rationale, source |-> "ai"]

\* What rank_suggestions is called with.
CandidateLists ==
    {<<Candidate("Apple", "ORG", "r1"), Candidate("apple", "ORG", ""),
       Candidate("Apple", "ORG", "r2")>>,
     <<Candidate("apple", "PER", ""), Candidate("Apple", "ORG", "r2"),
       Candidate("Apple", "ORG", "r1")>>,
     <<[label |-> "PER", confidence |-> 7 * Scale, rationale |-> "", source |-> "ai"]>>}

\* The embeddings of retrieved exemplars that the scoring methods are called
\* with.
ExemplarLists == {<<>>, <<StyleVector("Apple", "ORG"), StyleVector("apple", "ORG")>>}

\* What the language model's answers parse to.
ParsedResponses ==
    {ParsedOther, ParsedList(<<>>),
     ParsedList(<<[text |-> "apple", label |-> "ORG", start |-> 0, end |-> 5],
                  [text |-> "Apple", label |-> "ORG", rationale |-> "r1"]>>),
     ParsedDict([label |-> "PER"])}

\* One call of the endpoint suggest_annotations, ending as stop says.
DoSuggest(annotator_ids, rankings, responses, stops) ==
    \E text \in Texts, annotator_id \in annotator_ids, enable_style_ranking \in rankings,
       parsed \in responses, stop \in stops :
        LET r == suggest(app, text, MaxK, annotator_id, enable_style_ranking, parsed, stop)
        IN  /\ up
            /\ Becomes(r.app)
            /\ last' = [op |-> "suggest", text |-> text, annotator_id |-> annotator_id,
                        stop |-> stop, outcome |-> r.outcome, ret |-> r.ret]

\* A call of suggest that returns.
Suggest == DoSuggest({Some("ann1")}, BOOLEAN, ParsedResponses, {None})

\* A call of suggest in which a step raises, or which is abandoned in a step.
SuggestStops == DoSuggest({None}, {TRUE}, {ParsedOther}, {Some(x) : x \in Stops})

\* One call of the endpoint search_exemplars.
SearchByText == DoSearch({embed_single(text) : text \in Texts}, {None, Some("ORG")})

ReadsAddExemplar == DoAddExemplar(ReadExemplars, MaxReadId)

\* One call of the endpoint score_annotation.
ScoreAnnotation ==
    \E text \in Texts, label \in Labels, annotator_id \in {None, Some("ann1")} :
        /\ up
        /\ last' = [op |-> "score_annotation", text |-> text, label |-> label,
                    annotator_id |-> annotator_id, outcome |-> "returned",
                    ret |-> score_annotation(app, text, label, "", "", annotator_id)]
        /\ UNCHANGED <<storeVars, styleVars, requestVars, backendVars>>

\* One call of score_suggestion.
ScoreSuggestion ==
    \E text \in Texts, label \in Labels, exemplar_embeddings \in ExemplarLists,
       annotator_id \in AnnotatorIds :
        /\ last' = [op |-> "score_suggestion", text |-> text, label |-> label,
                    exemplar_embeddings |-> exemplar_embeddings,
                    annotator_id |-> annotator_id, outcome |-> "returned",
                    ret |-> score_suggestion(sc, text, label, "", "", exemplar_embeddings,
                                             annotator_id, Weights)]
        /\ UNCHANGED <<storeVars, styleVars, requestVars, backendVars>>

\* One call of rank_suggestions.
RankSuggestions ==
    \E suggestions \in CandidateLists, exemplar_embeddings \in ExemplarLists,
       annotator_id \in {None, Some("ann1")} :
        /\ last' = [op |-> "rank_suggestions", suggestions |-> suggestions,
                    exemplar_embeddings |-> exemplar_embeddings,
                    annotator_id |-> annotator_id, outcome |-> "returned",
                    ret |-> rank_suggestions(sc, suggestions, "", exemplar_embeddings,
                                             annotator_id)]
        /\ UNCHANGED <<storeVars, styleVars, requestVars, backendVars>>

\* One call of the endpoint get_stats.
Stats ==
    /\ up
    /\ last' = [op |-> "get_stats", outcome |-> "returned", ret |-> suggester_get_stats(app)]
    /\ UNCHANGED <<storeVars, styleVars, requestVars, backendVars>>

\* The service with its read paths.
NextReads ==
    \/ ReadsAddExemplar \/ DeleteExemplar
    \/ Suggest \/ SuggestStops \/ SearchByText
    \/ ScoreAnnotation \/ ScoreSuggestion \/ RankSuggestions \/ Stats

SpecReads == Init /\ [][NextReads]_vars

\* The weights of the calls of score_suggestion, in tenths: the default and one
\* that a caller passes in its place.
WeightChoices == {Weights, <<2, 3, 5>>}

\* One call of score_suggestion with weights of the caller's.
ScoreWeighted ==
    \E text \in {"Apple"}, label \in Labels, exemplar_embeddings \in ExemplarLists,
       annotator_id \in {None, Some("ann1")}, weights \in WeightChoices :
        /\ last' = [op |-> "score_suggestion", text |-> text, label |-> label,
                    exemplar_embeddings |-> exemplar_embeddings,
                    annotator_id |-> annotator_id, weights |-> weights,
                    outcome |-> "returned",
                    ret |-> score_suggestion(sc, text, label, "", "", exemplar_embeddings,
                                             annotator_id, weights)]
        /\ UNCHANGED <<storeVars, styleVars, requestVars, backendVars>>

NextWeights == UpdateLabelCentroid \/ UpdateAnnotatorProfile \/ ScoreWeighted

SpecWeights == Init /\ [][NextWeights]_vars

-----------------------------------------------------------------------------
(* The event loop of the service.  Every endpoint of main.py is declared     *)
(* async def and its body awaits nothing, so the loop runs a handler from    *)
(* its first statement to its return before it runs a statement of another.  *)
(* A handler is followed statement by statement: its frame holds the request, *)
(* the position, the local variables and the calls it has made.              *)

\* The requests of the endpoints.
AddExemplarRequest(text, label, annotator_id) ==
    [kind |-> "add_exemplar", text |-> text, label |-> label, annotator_id |-> annotator_id]

DeleteExemplarRequest(text, label) == [kind |-> "delete_exemplar", text |-> text, label |-> label]

SearchRequest(text, k, label_filter) ==
    [kind |-> "search", text |-> text, k |-> k, label_filter |-> label_filter]

ScoreRequest(text, label, annotator_id) ==
    [kind |-> "score", text |-> text, label |-> label, annotator_id |-> annotator_id]

StatsRequest == [kind |-> "get_stats"]

SuggestRequest(text, top_k, annotator_id, enable_style_ranking) ==
    [kind |-> "suggest", text |-> text, top_k |-> top_k, annotator_id |-> annotator_id,
     enable_style_ranking |-> enable_style_ranking]

\* An answer of the language model, by what parse_json_response makes of it:
\* what json.loads gives for the whole text (the text inside a code fence, when
\* there is one), for the text the pattern of an array matches and for the text
\* the pattern of an object matches; None where json.loads raises or the
\* pattern does not match.
RawResponse(whole, array, object) == [whole |-> whole, array |-> array, object |-> object]

\* parse_json_response returns None.
ParsedNone == [kind |-> "none"]

\* parse_json_response
parse_json_response(response) ==
    IF response.whole # None THEN response.whole[1]
    ELSE IF response.array # None THEN response.array[1]
    ELSE IF response.object # None THEN response.object[1]
    ELSE ParsedNone

\* The answers of the language model: a JSON array of two suggestions, an empty
\* array, prose around an array and an object, prose around an object, a JSON
\* number, and text that holds no JSON.
RawResponses ==
    {RawResponse(Some(ParsedList(<<[text |-> "apple", label |-> "ORG", start |-> 0, end |-> 5],
                                   [text |-> "Apple", label |-> "ORG", rationale |-> "r1"]>>)),
                 None, None),
     RawResponse(Some(ParsedList(<<>>)), None, None),
     RawResponse(None, Some(ParsedList(<<[text |-> "Apple", label |-> "PER"]>>)),
                 Some(ParsedDict([label |-> "ORG"]))),
     RawResponse(None, None, Some(ParsedDict([label |-> "PER"]))),
     RawResponse(Some(ParsedOther), None, None),
     RawResponse(None, None, None)}

\* What the collaborators of a handler answer in one statement: ok is FALSE
\* when the embedding function or the language model raises; response is the
\* answer of the language model.
Answer(ok, response) == [ok |-> ok, response |-> response]

\* The frame of a handler that has not executed a statement; before is the
\* service as it was when the handler was started (history).
Frame(req, a) ==
    [req |-> req, pc |-> "start", loc |-> <<>>, calls |-> <<>>, outcome |-> "running",
     ret |-> None, before |-> a]

\* The handler goes on to pc with the locals set and the calls made.
Goes(f, a, pc, set, called) ==
    [f |-> [f EXCEPT !.pc = pc, !.loc = Merge(f.loc, set), !.calls = f.calls \o called],
     app |-> a]

\* The handler returns ret.
Returns(f, a, ret, called) ==
    [f |-> [f EXCEPT !.pc = "done", !.outcome = "returned", !.ret = Some(ret),
                     !.calls = f.calls \o called],
     app |-> a]

\* A call of the handler raises and the exception leaves the handler.
Raises(f, a, called) ==
    [f |-> [f EXCEPT !.pc = "done", !.outcome = "raised", !.calls = f.calls \o called],
     app |-> a]

\* As add_exemplar_embed, the id taken and the counter advanced before the
\* embeddings are computed.
add_exemplar_embed_after_id(f, a, in) ==
    IF ~in.ok THEN Raises(f, [a EXCEPT !.st.next_id = a.st.next_id + 1], <<"embed_single">>)
    ELSE Goes(f, a, "id",
              [content_embedding |-> embed_single(f.req.text),
               style_embedding |-> create_annotation_embedding(f.req.text, f.req.label, "", "")],
              <<"embed_single", "embed_single">>)

\* add_exemplar, the two embeddings: of the text, and of the structured text of
\* the annotation.  They are computed before anything is changed.
add_exemplar_embed(f, a, in) ==
    IF ~in.ok THEN Raises(f, a, <<"embed_single">>)
    ELSE Goes(f, a, "id",
              [content_embedding |-> embed_single(f.req.text),
               style_embedding |-> create_annotation_embedding(f.req.text, f.req.label, "", "")],
              <<"embed_single", "embed_single">>)

\* One statement of the endpoint add_exemplar, through
\* AnnotationSuggester.add_exemplar and FAISSRetriever.add: the two embeddings,
\* exemplar_id = self._next_id, self._next_id += 1, add_with_ids, the metadata
\* entry, _save, update_label_centroid, update_annotator_profile, the return.
add_exemplar_step(f, a, in) ==
    LET req == f.req
    IN  CASE f.pc = "start" -> add_exemplar_embed(f, a, in)
          [] f.pc = "id" -> Goes(f, a, "bump", [exemplar_id |-> a.st.next_id], <<>>)
          [] f.pc = "bump" ->
               Goes(f, [a EXCEPT !.st.next_id = a.st.next_id + 1], "index", <<>>, <<>>)
          [] f.pc = "index" ->
               Goes(f, [a EXCEPT !.st.id_map = add_with_ids(a.st.id_map, f.loc.content_embedding,
                                                            f.loc.exemplar_id)],
                    "metadata", <<>>, <<>>)
          [] f.pc = "metadata" ->
               Goes(f, [a EXCEPT !.st.metadata =
                           DictSet(a.st.metadata, f.loc.exemplar_id,
                               [document_id |-> "doc1", text |-> req.text, label |-> req.label,
                                span_start |-> 0, span_end |-> 5, context |-> "",
                                rationale |-> "",
                                annotator_id |-> or_default(req.annotator_id)])],
                    "save", <<>>, <<>>)
          [] f.pc = "save" -> Goes(f, [a EXCEPT !.dk = save(a.st, a.dk, "done")], "centroid",
                                   <<>>, <<>>)
          [] f.pc = "centroid" ->
               LET u == update_label_centroid(a.sc, req.label, f.loc.style_embedding)
               IN  Goes(f, [a EXCEPT !.sc = u.sc, !.sf = u.sf],
                        IF Truthy(req.annotator_id) THEN "profile" ELSE "return", <<>>, <<>>)
          [] f.pc = "profile" ->
               LET u == update_annotator_profile(a.sc, req.annotator_id[1],
                                                 f.loc.style_embedding, req.label)
               IN  Goes(f, [a EXCEPT !.sc = u.sc, !.sf = u.sf], "return", <<>>, <<>>)
          [] f.pc = "return" ->
               Returns(f, a,
                       [exemplar_id |-> f.loc.exemplar_id,
                        total_exemplars |-> count(a.st),
                        label_count |-> Get(a.sc.label_counts, req.label, 0),
                        style_stats |-> get_stats(a.sc)],
                       <<>>)

\* One statement of the endpoint delete_exemplar, through
\* remove_by_text_and_label and remove: the list of ids, then for each id the
\* test of the metadata and remove_ids, the deletion of the metadata entry and
\* _save.
delete_exemplar_step(f, a, in) ==
    LET req == f.req
        eid == f.loc.to_remove[f.loc.i]
        next == IF f.loc.i < Len(f.loc.to_remove) THEN "remove_ids" ELSE "return"
    IN  CASE f.pc = "start" ->
               LET ids == to_remove(a.st, req.text, req.label)
               IN  Goes(f, a, IF ids = <<>> THEN "return" ELSE "remove_ids",
                        [to_remove |-> ids, i |-> 1], <<>>)
          [] f.pc = "remove_ids" ->
               IF eid \notin DOMAIN a.st.metadata
               THEN Goes(f, a, next, [i |-> f.loc.i + 1], <<>>)
               ELSE Goes(f, [a EXCEPT !.st.id_map = remove_ids(a.st.id_map, eid)], "del",
                         <<>>, <<>>)
          [] f.pc = "del" ->
               Goes(f, [a EXCEPT !.st.metadata = DictDel(a.st.metadata, eid)], "save", <<>>, <<>>)
          [] f.pc = "save" ->
               Goes(f, [a EXCEPT !.dk = save(a.st, a.dk, "done")], next, [i |-> f.loc.i + 1],
                    <<>>)
          [] f.pc = "return" ->
               Returns(f, a,
                       [removed_count |-> Len(f.loc.to_remove), total_exemplars |-> count(a.st)],
                       <<>>)

\* One statement of the endpoint search_exemplars, through
\* FAISSRetriever.search: the embedding of the text, the search of the index,
\* the loop over the hits that reads the metadata.
search_exemplars_step(f, a, in) ==
    LET req == f.req
    IN  CASE f.pc = "start" ->
               IF ~in.ok THEN Raises(f, a, <<"embed_single">>)
               ELSE Goes(f, a, "index", [query_embedding |-> embed_single(req.text)],
                         <<"embed_single">>)
          [] f.pc = "index" ->
               IF ntotal(a.st.id_map) = 0 THEN Returns(f, a, <<>>, <<"search">>)
               ELSE Goes(f, a, "metadata",
                         [hits |-> index_search(a.st.id_map, f.loc.query_embedding,
                                                search_k(a.st, req.k, req.label_filter))],
                         <<"search">>)
          [] f.pc = "metadata" ->
               Returns(f, a, collect(a.st, f.loc.hits, req.k, req.label_filter, <<>>), <<>>)

\* The endpoint score_annotation.
score_annotation_step(f, a, in) ==
    IF ~in.ok THEN Raises(f, a, <<"embed_single">>)
    ELSE Returns(f, a,
                 score_annotation(a, f.req.text, f.req.label, "", "", f.req.annotator_id),
                 <<"embed_single", "search", "score_suggestion">>)

\* The endpoint get_stats.
get_stats_step(f, a, in) == Returns(f, a, suggester_get_stats(a), <<"count", "get_all_labels">>)

\* suggest, the embedding of the text.
suggest_embed(f, a, in) ==
    IF ~in.ok THEN Raises(f, a, <<"embed_single">>)
    ELSE Goes(f, a, "retrieve", [query_embedding |-> embed_single(f.req.text)],
              <<"embed_single">>)

\* suggest, the retrieval: search is called when count() > 0, and the
\* structured text of each exemplar it returned is embedded.
suggest_retrieve(f, a, in) ==
    LET results == search(a.st, f.loc.query_embedding, f.req.top_k, None)
        called == <<"count", "search">> \o [i \in DOMAIN results |-> "embed_single"]
    IN  IF count(a.st) = 0
        THEN Goes(f, a, "llm",
                  [counted |-> 0, exemplars |-> <<>>, exemplar_embeddings |-> <<>>],
                  <<"count">>)
        ELSE IF ~in.ok THEN Raises(f, a, SubSeq(called, 1, 3))
        ELSE Goes(f, a, "llm",
                  [counted |-> count(a.st),
                   exemplars |-> [i \in DOMAIN results |->
                                     Merge(results[i].metadata,
                                           [retrieval_score |-> results[i].score])],
                   exemplar_embeddings |-> embeddings_of(results)],
                  called)

\* As suggest_generate, the language model not called when no exemplar was
\* retrieved.
suggest_generate_needing_exemplars(f, a, in) ==
    IF f.loc.exemplars = <<>>
    THEN Goes(f, a, "parse", [raw_response |-> RawResponse(None, None, None)], <<>>)
    ELSE IF ~in.ok THEN Raises(f, a, <<"build_prompt", "complete">>)
    ELSE Goes(f, a, "parse", [raw_response |-> in.response[1]], <<"build_prompt", "complete">>)

\* suggest, the prompt and the call of the language model.
suggest_generate(f, a, in) ==
    IF ~in.ok THEN Raises(f, a, <<"build_prompt", "complete">>)
    ELSE Goes(f, a, "parse", [raw_response |-> in.response[1]], <<"build_prompt", "complete">>)

\* As suggest_parse, an answer that does not parse raising an error.
suggest_parse_strict(f, a, in) ==
    LET parsed == parse_json_response(f.loc.raw_response)
    IN  IF parsed = ParsedNone THEN Raises(f, a, <<"parse_json_response">>)
        ELSE Goes(f, a, "rank", [parsed |-> parsed, suggestions |-> suggestions_of(parsed)],
                  <<"parse_json_response">>)

\* suggest, the parsing of the answer and the suggestions made of it.
suggest_parse(f, a, in) ==
    LET parsed == parse_json_response(f.loc.raw_response)
    IN  Goes(f, a, "rank", [parsed |-> parsed, suggestions |-> suggestions_of(parsed)],
             <<"parse_json_response">>)

\* suggest, the ranking, when it is enabled and there are suggestions, the
\* aggregate statistics and the return.
suggest_rank(f, a, in) ==
    LET req == f.req
        ranking == req.enable_style_ranking /\ f.loc.suggestions # <<>>
        ranked == IF ranking
                  THEN rank_suggestions(a.sc, f.loc.suggestions, req.text,
                                        f.loc.exemplar_embeddings, req.annotator_id)
                  ELSE f.loc.suggestions
        sims(component) == [i \in DOMAIN ranked |-> ranked[i].style_scores[component]]
    IN  Returns(f, a,
                [suggestions |-> ranked,
                 exemplars_used |-> Len(f.loc.exemplars),
                 exemplars |->
                     [i \in DOMAIN f.loc.exemplars |->
                         [text |-> Get(f.loc.exemplars[i], "text", ""),
                          label |-> Get(f.loc.exemplars[i], "label", ""),
                          score |-> f.loc.exemplars[i].retrieval_score]],
                 style_ranking |->
                     [enabled |-> req.enable_style_ranking,
                      annotator_id |-> req.annotator_id,
                      avg_content_similarity |->
                          IF ranking THEN Avg(sims("content_similarity")) ELSE Avg(<<>>),
                      avg_label_similarity |->
                          IF ranking THEN Avg(sims("label_similarity")) ELSE Avg(<<>>),
                      avg_style_similarity |->
                          IF ranking THEN Avg(sims("style_similarity")) ELSE Avg(<<>>)]],
                IF ranking THEN <<"rank_suggestions">> ELSE <<>>)

\* One step of the endpoint suggest_annotations, through
\* AnnotationSuggester.suggest.
suggest_step(f, a, in) ==
    CASE f.pc = "start" -> suggest_embed(f, a, in)
      [] f.pc = "retrieve" -> suggest_retrieve(f, a, in)
      [] f.pc = "llm" -> suggest_generate(f, a, in)
      [] f.pc = "parse" -> suggest_parse(f, a, in)
      [] f.pc = "rank" -> suggest_rank(f, a, in)

\* One statement of the handler in frame f.
handler_step(f, a, in) ==
    CASE f.req.kind = "add_exemplar" -> add_exemplar_step(f, a, in)
      [] f.req.kind = "delete_exemplar" -> delete_exemplar_step(f, a, in)
      [] f.req.kind = "search" -> search_exemplars_step(f, a, in)
      [] f.req.kind = "score" -> score_annotation_step(f, a, in)
      [] f.req.kind = "get_stats" -> get_stats_step(f, a, in)
      [] f.req.kind = "suggest" -> suggest_step(f, a, in)

\* What the collaborators may answer in the next statement of frame f: the
\* embedding function may raise where it is called, the language model may
\* raise or give one of the answers.
Answers(f, a) ==
    IF f.req.kind = "suggest" /\ f.pc = "llm"
    THEN {Answer(FALSE, None)} \cup {Answer(TRUE, Some(x)) : x \in RawResponses}
    ELSE IF \/ f.pc = "start" /\ f.req.kind \in {"add_exemplar", "search", "score", "suggest"}
            \/ f.pc = "retrieve" /\ count(a.st) > 0
    THEN {Answer(FALSE, None), Answer(TRUE, None)}
    ELSE {Answer(TRUE, None)}

\* As awaits, every statement of a handler a point where the loop may go on
\* with another handler (as for endpoints declared def, run in threads).
awaits_everywhere(pc) == TRUE

\* The handler awaits before the statement at pc: no handler awaits anywhere.
awaits(pc) == FALSE

\* The event loop accepts a request of menu while fewer than MaxInFlight are in
\* the service; an add is accepted while the ids stay below MaxLoopId.
DoArrive(menu) ==
    \E req \in menu :
        LET inside == pending \cup DOMAIN running
        IN  /\ up
            /\ req \notin inside
            /\ Cardinality(inside) < MaxInFlight
            /\ req.kind = "add_exemplar" =>
                   next_id + Cardinality({r \in inside : r.kind = "add_exemplar"}) < MaxLoopId
            /\ pending' = pending \cup {req}
            /\ UNCHANGED <<storeVars, last, styleVars, running, current, removed, backendVars>>

\* The event loop starts the handler of a pending request, when it is not
\* inside another handler.
Start ==
    \E req \in pending :
        /\ current = None
        /\ pending' = pending \ {req}
        /\ running' = DictSet(running, req, Frame(req, app))
        /\ current' = IF awaits("start") THEN None ELSE Some(req)
        /\ UNCHANGED <<storeVars, last, styleVars, removed, backendVars>>

\* The event loop executes the next statement of a handler: of the handler it
\* is inside, or of any handler when it is inside none.
Run ==
    \E req \in DOMAIN running :
        \E in \in Answers(running[req], app) :
            LET f == running[req]
                r == handler_step(f, app, in)
                done == r.f.pc = "done"
                adding == req.kind = "add_exemplar"
            IN  /\ current \in {None, Some(req)}
                /\ id_map' = r.app.st.id_map
                /\ metadata' = r.app.st.metadata
                /\ next_id' = r.app.st.next_id
                /\ indexFile' = r.app.dk.indexFile
                /\ metadataFile' = r.app.dk.metadataFile
                /\ Scored(r.app)
                /\ running' = IF done THEN DictDel(running, req) ELSE DictSet(running, req, r.f)
                /\ current' = IF done \/ awaits(r.f.pc) THEN None ELSE Some(req)
                /\ returned' = IF adding /\ r.f.outcome = "returned"
                                THEN Append(returned, r.f.ret[1].exemplar_id)
                                ELSE returned
                /\ removed' = IF req.kind = "delete_exemplar" /\ r.f.outcome = "returned"
                               THEN removed + r.f.ret[1].removed_count
                               ELSE removed
                /\ flushed' = IF f.pc = "save" THEN st ELSE flushed
                /\ observed' = IF adding /\ f.pc = "centroid"
                                THEN DictSet(observed, req.label,
                                         Append(Get(observed, req.label, <<>>),
                                                f.loc.style_embedding))
                                ELSE observed
                /\ arrived' = IF adding /\ f.pc = "profile"
                               THEN DictSet(arrived, req.annotator_id[1],
                                        Append(Get(arrived, req.annotator_id[1], <<>>),
                                               [embedding |-> f.loc.style_embedding,
                                                label |-> req.label]))
                               ELSE arrived
                /\ updates' = IF adding /\ f.pc \in {"centroid", "profile"} THEN updates + 1
                               ELSE updates
                /\ last' = [op |-> "handler", req |-> req, pc |-> f.pc, in |-> in, f |-> r.f,
                            saw |-> app, outcome |-> r.f.outcome, ret |-> r.f.ret]
                /\ UNCHANGED <<up, recovered, faults, reloaded, pending, backendVars>>

\* The requests of concurrent clients of the service.
LoopRequests ==
    {AddExemplarRequest("Apple", "ORG", Some("ann1")),
     AddExemplarRequest("apple", "ORG", None),
     DeleteExemplarRequest("Apple", "ORG"),
     SearchRequest("Apple", MaxK, None),
     ScoreRequest("Apple", "ORG", Some("ann1")),
     StatsRequest,
     SuggestRequest("apple", MaxK, None, TRUE)}

Arrive == DoArrive(LoopRequests)

NextLoop == Arrive \/ Start \/ Run

SpecLoop == Init /\ [][NextLoop]_vars

\* The requests where the suggest cycle is looked at.
CycleRequests ==
    {AddExemplarRequest("Apple", "ORG", Some("ann1")),
     AddExemplarRequest("apple", "ORG", None)}
        \cup {SuggestRequest("Apple", top_k, Some("ann1"), enable_style_ranking) :
                 top_k \in 1..MaxK, enable_style_ranking \in BOOLEAN}

CycleArrive == DoArrive(CycleRequests)

NextCycle == CycleArrive \/ Start \/ Run

SpecCycle == Init /\ [][NextCycle]_vars

-----------------------------------------------------------------------------
(* The text of an answer of the language model, as a sequence of tokens: a   *)
(* fence of three backquotes (with or without "json"), the brackets, the     *)
(* comma, a JSON object without objects inside it (one token, braces        *)
(* included), a JSON number and a word of prose.                             *)

\* The longest answer, in tokens.
MaxTokens == 5

Tokens == {"fence", "[", "]", ",", "{A}", "{B}", "1", "word"}

Objects == {"{A}", "{B}"}

\* The object a token is the text of.
ObjectOf(token) ==
    IF token = "{A}" THEN [text |-> "Apple", label |-> "ORG"]
    ELSE [text |-> "apple", label |-> "PER"]

RECURSIVE TextsUpTo(_)
TextsUpTo(n) ==
    IF n = 0 THEN {<<>>}
    ELSE LET shorter == TextsUpTo(n - 1)
         IN  shorter \cup {Append(t, token) : t \in {x \in shorter : Len(x) = n - 1},
                                                token \in Tokens}

ResponseTexts == TextsUpTo(MaxTokens)

\* No JSON value starts here.
NoValue == [ok |-> FALSE, next |-> 0, val |-> ParsedNone]

RECURSIVE scan_value(_, _), scan_elements(_, _, _)
\* The JSON value that starts at token i of ts, and the token after it.
scan_value(ts, i) ==
    IF i > Len(ts) THEN NoValue
    ELSE IF ts[i] \in Objects
    THEN [ok |-> TRUE, next |-> i + 1, val |-> ParsedDict(ObjectOf(ts[i]))]
    ELSE IF ts[i] = "1" THEN [ok |-> TRUE, next |-> i + 1, val |-> ParsedOther]
    ELSE IF ts[i] = "["
    THEN IF i + 1 <= Len(ts) /\ ts[i + 1] = "]"
         THEN [ok |-> TRUE, next |-> i + 2, val |-> ParsedList(<<>>)]
         ELSE scan_elements(ts, i + 1, <<>>)
    ELSE NoValue

\* The elements of an array from token i on, after the elements of items.
scan_elements(ts, i, items) ==
    LET v == scan_value(ts, i)
        item == IF v.val.kind = "dict" THEN v.val.item ELSE ParsedOther
    IN  IF ~v.ok THEN NoValue
        ELSE IF v.next <= Len(ts) /\ ts[v.next] = ","
        THEN scan_elements(ts, v.next + 1, Append(items, item))
        ELSE IF v.next <= Len(ts) /\ ts[v.next] = "]"
        THEN [ok |-> TRUE, next |-> v.next + 1, val |-> ParsedList(Append(items, item))]
        ELSE NoValue

\* json.loads: the value when the text is one JSON value, None when it raises.
json_loads(ts) ==
    LET v == scan_value(ts, 1)
    IN  IF v.ok /\ v.next = Len(ts) + 1 THEN Some(v.val) ELSE None

\* The places of the tokens of S in ts.
Places(ts, S) == {i \in DOMAIN ts : ts[i] \in S}

SetMin(S) == CHOOSE x \in S : \A y \in S : x <= y

SetMax(S) == CHOOSE x \in S : \A y \in S : x >= y

\* The first re.search, of a fenced block: the text between the first fence
\* and the next, the response itself when there are no two.
json_match(ts) ==
    LET fences == Places(ts, {"fence"})
    IN  IF Cardinality(fences) < 2 THEN ts
        ELSE LET first == SetMin(fences)
                 second == SetMin(fences \ {first})
             IN  SubSeq(ts, first + 1, second - 1)

\* The second re.search, greedy: from the first opening bracket to the last
\* closing bracket after it.
array_match(ts) ==
    LET opens == Places(ts, {"["})
        closes == {i \in Places(ts, {"]"}) : opens # {} /\ i > SetMin(opens)}
    IN  IF closes = {} THEN None ELSE Some(SubSeq(ts, SetMin(opens), SetMax(closes)))

\* The third re.search, greedy: from the first opening brace to the last
\* closing brace.
obj_match(ts) ==
    LET objects == Places(ts, Objects)
    IN  IF objects = {} THEN None ELSE Some(SubSeq(ts, SetMin(objects), SetMax(objects)))

\* What parse_json_response reads in the text of a response: the whole of the
\* text or of its fenced block, the array and the object found in it.
read_response(ts) ==
    LET response == json_match(ts)
        array == array_match(response)
        object == obj_match(response)
    IN  RawResponse(json_loads(response),
                    IF array = None THEN None ELSE json_loads(array[1]),
                    IF object = None THEN None ELSE json_loads(object[1]))

\* The language model has answered in suggest.
InitParse ==
    /\ id_map = NewStore.id_map
    /\ metadata = NewStore.metadata
    /\ next_id = NewStore.next_id
    /\ indexFile = AbsentIndexFile
    /\ metadataFile = AbsentMetadataFile
    /\ up = TRUE
    /\ last \in {[op |-> "complete", response |-> ts, outcome |-> "returned"] :
                    ts \in ResponseTexts}
    /\ returned = <<>>
    /\ recovered = FALSE
    /\ faults = 0
    /\ flushed = NewStore
    /\ label_centroids = NewScorer.label_centroids
    /\ label_counts = NewScorer.label_counts
    /\ annotator_profiles = NewScorer.annotator_profiles
    /\ centroidsFile = AbsentStyleFile
    /\ profilesFile = AbsentStyleFile
    /\ observed = <<>>
    /\ arrived = <<>>
    /\ updates = 0
    /\ reloaded = FALSE
    /\ pending = {}
    /\ running = <<>>
    /\ current = None
    /\ removed = 0
    /\ documents = <<>>
    /\ annotations = <<>>
    /\ reachable = TRUE
    /\ origin = <<>>
    /\ issued = {}
    /\ handlers = <<>>

\* The answer of the language model is parsed and made suggestions of.
ParseResponse ==
    /\ last.op = "complete"
    /\ LET parsed == parse_json_response(read_response(last.response))
       IN  last' = [op |-> "parse_json_response", response |-> last.response,
                    parsed |-> parsed, suggestions |-> suggestions_of(parsed),
                    outcome |-> "returned"]
    /\ UNCHANGED <<storeVars, styleVars, requestVars, backendVars>>

NextParse == ParseResponse

SpecParse == InitParse /\ [][NextParse]_vars

-----------------------------------------------------------------------------
(* The backend (src/backend/app): LocalStorage keeps the documents and the   *)
(* annotations of each document; the routers and the chat agent call the     *)
(* service through MLClient, after a health check, and swallow its errors.   *)
(* The spans are 0..5 and the context sent with an exemplar is empty.        *)

\* The ids uuid4 gives to documents and to annotations.
DocumentIds == {"doc1", "doc2"}

AnnotationIds == {"a1", "a2"}

\* LocalStorage.get_annotations
get_annotations(anns, doc_id) == Get(anns, doc_id, <<>>)

\* As save_annotation, without the writing of the file.
save_annotation_unwritten(anns, doc_id, annotation) == anns

\* LocalStorage.save_annotation: the annotation is appended to the list of the
\* document.
save_annotation(anns, doc_id, annotation) ==
    DictSet(anns, doc_id, Append(get_annotations(anns, doc_id), annotation))

\* ann for ann in annotations if ann["id"] != ann_id
Without(list, ann_id) == SelectSeq(list, LAMBDA ann : ann.id # ann_id)

\* LocalStorage.delete_annotation
storage_delete_annotation(anns, doc_id, ann_id) ==
    IF Without(get_annotations(anns, doc_id), ann_id) = get_annotations(anns, doc_id)
    THEN anns
    ELSE DictSet(anns, doc_id, Without(get_annotations(anns, doc_id), ann_id))

\* LocalStorage.delete_document: the directory of the document and the file of
\* its annotations are removed.
storage_delete_document(docs, anns, doc_id) ==
    [documents |-> DictDel(docs, doc_id), annotations |-> DictDel(anns, doc_id)]

\* The annotation of the list with the id, if any.
Find(list, ann_id) ==
    LET found == SelectSeq(list, LAMBDA ann : ann.id = ann_id)
    IN  IF found = <<>> THEN None ELSE Some(found[1])

\* The first annotation of the list with the text, if any.
FirstWithText(list, text) ==
    LET found == SelectSeq(list, LAMBDA ann : ann.text = text)
    IN  IF found = <<>> THEN None ELSE Some(found[1])

\* The service after a call of its endpoint by the backend.
Served(a) ==
    /\ id_map' = a.st.id_map
    /\ metadata' = a.st.metadata
    /\ next_id' = a.st.next_id
    /\ indexFile' = a.dk.indexFile
    /\ metadataFile' = a.dk.metadataFile
    /\ flushed' = IF a.st = st THEN flushed ELSE a.st
    /\ Scored(a)

\* The service is not called.
NotServed == UNCHANGED <<id_map, metadata, next_id, indexFile, metadataFile, flushed,
                         label_centroids, label_counts, annotator_profiles, centroidsFile,
                         profilesFile, returned, observed, arrived, updates, removed, origin>>

\* upload_document
UploadDocument ==
    \E doc_id \in DocumentIds \ issued :
        /\ documents' = DictSet(documents, doc_id, "pending")
        /\ issued' = issued \cup {doc_id}
        /\ last' = [op |-> "upload_document", document_id |-> doc_id, outcome |-> "returned"]
        /\ NotServed
        /\ UNCHANGED <<up, recovered, faults, reloaded, pending, running, current, handlers,
                       annotations, reachable>>

\* The annotation is saved and, when the service answers the health check,
\* added as an exemplar.  The call of add_exemplar may fail after a health
\* check that passed (the service answers with an error status before it has
\* changed anything, or the connection is lost): the except clause of the
\* caller takes the exception.
DoCreateAnnotation(op, source) ==
    \E doc_id \in DOMAIN documents, ann_id \in AnnotationIds \ issued, text \in Texts,
       label \in Labels, fails \in IF reachable THEN BOOLEAN ELSE {FALSE} :
        LET annotation == [id |-> ann_id, document_id |-> doc_id, label |-> label,
                           span_start |-> 0, span_end |-> 5, text |-> text, source |-> source]
            a == add_exemplar(app, doc_id, text, label, 0, 5, "", "", None)
        IN  /\ issued' = issued \cup {ann_id}
            /\ annotations' = save_annotation(annotations, doc_id, annotation)
            /\ documents' = IF op = "create_annotation" /\ documents[doc_id] = "pending"
                             THEN DictSet(documents, doc_id, "in_progress")
                             ELSE documents
            /\ IF reachable /\ ~fails
               THEN /\ Served(a.app)
                    /\ returned' = Append(returned, a.ret.exemplar_id)
                    /\ observed' = DictSet(observed, label,
                                       Append(Get(observed, label, <<>>),
                                              create_annotation_embedding(text, label, "", "")))
                    /\ updates' = updates + 1
                    /\ origin' = DictSet(origin, a.ret.exemplar_id, ann_id)
                    /\ UNCHANGED <<arrived, removed>>
               ELSE NotServed
            /\ last' = [op |-> op, document_id |-> doc_id, annotation |-> annotation,
                        reachable |-> reachable, failed |-> fails, outcome |-> "returned",
                        ret |-> annotation]
            /\ UNCHANGED <<up, recovered, faults, reloaded, pending, running, current, handlers,
                           reachable>>

\* The endpoint create_annotation.
CreateAnnotation == DoCreateAnnotation("create_annotation", "manual")

\* The tool create_annotation of the chat agent.
ToolCreateAnnotation == DoCreateAnnotation("tool_create_annotation", "chat")

\* The annotation found is deleted from storage; when the path calls the
\* service and the service answers the health check, the exemplars with the
\* text and the label of the annotation are deleted.
DoDeleteAnnotation(op, doc_id, found, calls_service) ==
    LET d == delete_exemplar(app, found[1].text, found[1].label)
    IN  /\ found # None
        /\ annotations' = storage_delete_annotation(annotations, doc_id, found[1].id)
        /\ IF calls_service /\ reachable
           THEN /\ Served(d.app)
                /\ removed' = removed + d.ret.removed_count
                /\ UNCHANGED <<returned, observed, arrived, updates, origin>>
           ELSE NotServed
        /\ last' = [op |-> op, document_id |-> doc_id, gone |-> {found[1].id},
                    reachable |-> reachable, outcome |-> "returned"]
        /\ UNCHANGED <<up, recovered, faults, reloaded, pending, running, current, handlers,
                       documents, reachable, issued>>

\* The endpoint delete_annotation.
DeleteAnnotation ==
    \E doc_id \in DOMAIN documents, ann_id \in AnnotationIds :
        DoDeleteAnnotation("delete_annotation", doc_id,
                           Find(get_annotations(annotations, doc_id), ann_id), TRUE)

\* The endpoint reject_pending_annotation.
RejectPendingAnnotation ==
    \E doc_id \in DOMAIN documents, ann_id \in AnnotationIds :
        DoDeleteAnnotation("reject_pending_annotation", doc_id,
                           Find(get_annotations(annotations, doc_id), ann_id), FALSE)

\* The tool delete_annotation of the chat agent.
ToolDeleteAnnotation ==
    \E doc_id \in DOMAIN documents, text \in Texts :
        DoDeleteAnnotation("tool_delete_annotation", doc_id,
                           FirstWithText(get_annotations(annotations, doc_id), text), FALSE)

\* The endpoint delete_document.
DeleteDocument ==
    \E doc_id \in DOMAIN documents :
        LET s == storage_delete_document(documents, annotations, doc_id)
            list == get_annotations(annotations, doc_id)
        IN  /\ documents' = s.documents
            /\ annotations' = s.annotations
            /\ last' = [op |-> "delete_document", document_id |-> doc_id,
                        gone |-> {list[i].id : i \in DOMAIN list},
                        reachable |-> reachable, outcome |-> "returned"]
            /\ NotServed
            /\ UNCHANGED <<up, recovered, faults, reloaded, pending, running, current, handlers,
                           reachable, issued>>

\* The service stops answering the backend, or answers again.
HealthChanges ==
    /\ reachable' = ~reachable
    /\ last' = [op |-> "health", reachable |-> reachable', outcome |-> "returned"]
    /\ NotServed
    /\ UNCHANGED <<up, recovered, faults, reloaded, pending, running, current, handlers, documents,
                   annotations, issued>>

NextBackend ==
    \/ UploadDocument \/ CreateAnnotation \/ ToolCreateAnnotation
    \/ DeleteAnnotation \/ RejectPendingAnnotation \/ ToolDeleteAnnotation
    \/ DeleteDocument \/ HealthChanges

SpecBackend == Init /\ [][NextBackend]_vars

-----------------------------------------------------------------------------
(* The handlers of the backend that await.  An async def handler runs on the *)
(* event loop from one await to the next; a handler declared def runs on a   *)
(* thread of the pool, where every file operation is a step of its own.      *)

\* The most frames at one time: those of the handlers that await and of the
\* calls of accept and update that ended.
MaxHandlers == 2

\* The ids uuid4 has not given yet, in a fixed order.
FreshIds == SelectSeq(<<"a1", "a2">>, LAMBDA id : id \in AnnotationIds \ issued)

\* As storage_update_annotation, without the writing of the file.
storage_update_annotation_unwritten(anns, doc_id, ann_id, changes) == anns

\* LocalStorage.update_annotation
storage_update_annotation(anns, doc_id, ann_id, changes) ==
    LET list == get_annotations(anns, doc_id)
    IN  IF Find(list, ann_id) = None THEN anns
        ELSE DictSet(anns, doc_id,
                     [i \in DOMAIN list |->
                         IF list[i].id = ann_id THEN Merge(list[i], changes) ELSE list[i]])

\* The frame of a handler: rest holds what the handler has read and made.
Handler(op, pc, document_id, annotation_id, rest, ret) ==
    [op |-> op, pc |-> pc, document_id |-> document_id, annotation_id |-> annotation_id,
     rest |-> rest, ret |-> ret]

Begin(frame) == handlers' = Append(handlers, frame)

Resume(rid, frame) == handlers' = [handlers EXCEPT ![rid] = frame]

\* The handler returns and its frame is dropped.
Leave(rid) == handlers' = SubSeq(handlers, 1, rid - 1) \o SubSeq(handlers, rid + 1, Len(handlers))

At(op, pc) == {rid \in DOMAIN handlers : handlers[rid].op = op /\ handlers[rid].pc = pc}

\* The backend's state the service does not see is left alone.
Quiet == UNCHANGED <<up, recovered, faults, reloaded, pending, running, current>>

\* accept_pending_annotation, to its first await: the annotation is looked up,
\* its source tested and, when it is pending_batch, set to batch_ai.
AcceptStart ==
    \E doc_id \in DOMAIN documents, ann_id \in AnnotationIds \cap issued :
        LET found == Find(get_annotations(annotations, doc_id), ann_id)
            accepts == found # None /\ found[1].source = "pending_batch"
        IN  /\ Len(handlers) < MaxHandlers
            /\ annotations' = IF accepts
                               THEN storage_update_annotation(annotations, doc_id, ann_id,
                                                              [source |-> "batch_ai"])
                               ELSE annotations
            /\ Begin(IF found = None
                     THEN Handler("accept", "raised", doc_id, ann_id,
                                  [annotation |-> None, called |-> FALSE], "not_found")
                     ELSE IF ~accepts
                     THEN Handler("accept", "returned", doc_id, ann_id,
                                  [annotation |-> found, called |-> FALSE], "already_accepted")
                     ELSE Handler("accept", "health", doc_id, ann_id,
                                  [annotation |-> found, called |-> FALSE], "accepted"))
            /\ last' = [op |-> "accept_pending_annotation", pc |-> "start",
                        rid |-> Len(handlers) + 1, outcome |-> "running"]
            /\ NotServed
            /\ Quiet
            /\ UNCHANGED <<documents, reachable, issued>>

\* accept_pending_annotation, after the health check: the call of add_exemplar
\* is issued when the service answered.
AcceptHealth ==
    \E rid \in At("accept", "health") :
        LET f == handlers[rid]
        IN  /\ Resume(rid, IF reachable
                           THEN [f EXCEPT !.pc = "add", !.rest.called = TRUE]
                           ELSE [f EXCEPT !.pc = "returned"])
            /\ last' = [op |-> "accept_pending_annotation", pc |-> "health", rid |-> rid,
                        outcome |-> "running"]
            /\ NotServed
            /\ Quiet
            /\ UNCHANGED <<documents, annotations, reachable, issued>>

\* accept_pending_annotation, after add_exemplar: the service has added the
\* exemplar or the call has failed, and the handler returns.
AcceptAdd ==
    \E rid \in At("accept", "add"), fails \in IF reachable THEN BOOLEAN ELSE {TRUE} :
        LET f == handlers[rid]
            annotation == f.rest.annotation[1]
            a == add_exemplar(app, f.document_id, annotation.text, annotation.label,
                              annotation.span_start, annotation.span_end, "",
                              "Accepted batch annotation", None)
        IN  /\ Resume(rid, [f EXCEPT !.pc = "returned"])
            /\ IF ~fails
               THEN /\ Served(a.app)
                    /\ returned' = Append(returned, a.ret.exemplar_id)
                    /\ observed' = DictSet(observed, annotation.label,
                                       Append(Get(observed, annotation.label, <<>>),
                                              create_annotation_embedding(
                                                  annotation.text, annotation.label, "",
                                                  "Accepted batch annotation")))
                    /\ updates' = updates + 1
                    /\ origin' = DictSet(origin, a.ret.exemplar_id, annotation.id)
                    /\ UNCHANGED <<arrived, removed>>
               ELSE NotServed
            /\ last' = [op |-> "accept_pending_annotation", pc |-> "add", rid |-> rid,
                        failed |-> fails, outcome |-> "returned"]
            /\ Quiet
            /\ UNCHANGED <<documents, annotations, reachable, issued>>

\* The text of every document is "Apple apple": content.find(text).
content_find(text) == IF text = "Apple" THEN 0 ELSE IF text = "apple" THEN 6 ELSE 0 - 1

Suggestion(text, label) == [text |-> text, label |-> label]

\* What the service suggests for a document.
BatchSuggestions ==
    {<<Suggestion("Apple", "ORG"), Suggestion("apple", "PER")>>,
     <<Suggestion("apple", "PER"), Suggestion("apple", "PER")>>,
     <<Suggestion("", "ORG"), Suggestion("Pear", "ORG"), Suggestion("Apple", "")>>}

RECURSIVE save_suggestions(_, _, _, _, _)
\* The loop over the suggestions of a document in _tool_batch_annotate_all:
\* the annotations after it and the ids given in it; ok is FALSE when the
\* ids of the model run out.
save_suggestions(anns, doc_id, suggestions, existing_set, ids) ==
    IF suggestions = <<>> THEN [annotations |-> anns, ids |-> ids, ok |-> TRUE]
    ELSE LET text == Get(Head(suggestions), "text", "")
             label == Get(Head(suggestions), "label", "")
         IN  IF \/ text = "" \/ label = ""
                \/ <<text, label>> \in existing_set
                \/ content_find(text) = 0 - 1
             THEN save_suggestions(anns, doc_id, Tail(suggestions), existing_set, ids)
             ELSE IF ids = <<>> THEN [annotations |-> anns, ids |-> ids, ok |-> FALSE]
             ELSE save_suggestions(
                      save_annotation(anns, doc_id,
                          [id |-> Head(ids), document_id |-> doc_id, label |-> label,
                           span_start |-> content_find(text),
                           span_end |-> content_find(text) + Len(text), text |-> text,
                           source |-> "pending_batch"]),
                      doc_id, Tail(suggestions), existing_set, Tail(ids))

\* The documents of list_documents, in one order.
RECURSIVE Listed(_)
Listed(docs) ==
    IF docs = {} THEN <<>>
    ELSE LET d == CHOOSE x \in docs : TRUE IN <<d>> \o Listed(docs \ {d})

\* _tool_batch_annotate_all, to the await of the health check, or to the
\* return when there are no documents.
BatchStart ==
    \E auto_accept \in BOOLEAN :
        /\ Len(handlers) < MaxHandlers
        /\ IF documents = <<>> THEN UNCHANGED handlers
           ELSE Begin(Handler("batch", "health", "", "",
                              [auto_accept |-> auto_accept, todo |-> Listed(DOMAIN documents)],
                              "success"))
        /\ last' = [op |-> "batch_annotate_all", pc |-> "start", rid |-> Len(handlers) + 1,
                    outcome |-> IF documents = <<>> THEN "returned" ELSE "running"]
        /\ NotServed
        /\ Quiet
        /\ UNCHANGED <<documents, annotations, reachable, issued>>

\* _tool_batch_annotate_all, after the health check.
BatchHealth ==
    \E rid \in At("batch", "health") :
        LET f == handlers[rid]
        IN  /\ IF reachable THEN Resume(rid, [f EXCEPT !.pc = "suggest"]) ELSE Leave(rid)
            /\ last' = [op |-> "batch_annotate_all", pc |-> "health", rid |-> rid,
                        outcome |-> IF reachable THEN "running" ELSE "returned"]
            /\ NotServed
            /\ Quiet
            /\ UNCHANGED <<documents, annotations, reachable, issued>>

\* _tool_batch_annotate_all, one passage of the loop over the documents: the
\* service has answered suggest for the document (or the call has failed, which
\* the except clause takes), and with auto_accept the suggestions that are not
\* in the annotations of the document are saved.
BatchDocument ==
    \E rid \in At("batch", "suggest"),
       suggestions \in IF reachable THEN BatchSuggestions ELSE {<<>>} :
        LET f == handlers[rid]
            doc_id == Head(f.rest.todo)
            existing_annotations == get_annotations(annotations, doc_id)
            existing_set == {<<existing_annotations[i].text, existing_annotations[i].label>> :
                                i \in DOMAIN existing_annotations}
            saves == doc_id \in DOMAIN documents /\ f.rest.auto_accept /\ suggestions # <<>>
            s == IF saves
                 THEN save_suggestions(annotations, doc_id, suggestions, existing_set, FreshIds)
                 ELSE [annotations |-> annotations, ids |-> FreshIds, ok |-> TRUE]
        IN  /\ s.ok
            /\ annotations' = s.annotations
            /\ issued' = issued \cup (Range(FreshIds) \ Range(s.ids))
            /\ IF Tail(f.rest.todo) = <<>> THEN Leave(rid)
               ELSE Resume(rid, [f EXCEPT !.rest.todo = Tail(f.rest.todo)])
            /\ last' = [op |-> "batch_annotate_all", pc |-> "suggest", rid |-> rid,
                        document_id |-> doc_id, auto_accept |-> f.rest.auto_accept,
                        suggestions |-> suggestions,
                        created |-> Range(FreshIds) \ Range(s.ids),
                        outcome |-> IF Tail(f.rest.todo) = <<>> THEN "returned" ELSE "running"]
            /\ NotServed
            /\ Quiet
            /\ UNCHANGED <<documents, reachable>>

UpdateChoices == {[label |-> "PER"]}

\* update_annotation on a thread of the pool, to the end of get_annotations in
\* LocalStorage.update_annotation: the file of the document has been read.
UpdateRead ==
    \E doc_id \in DOMAIN documents, ann_id \in AnnotationIds \cap issued,
       changes \in UpdateChoices :
        /\ Len(handlers) < MaxHandlers
        /\ Begin(Handler("update", "write", doc_id, ann_id,
                         [read |-> get_annotations(annotations, doc_id),
                          updates |-> changes], ""))
        /\ last' = [op |-> "update_annotation", pc |-> "read", rid |-> Len(handlers) + 1,
                    outcome |-> "running"]
        /\ NotServed
        /\ Quiet
        /\ UNCHANGED <<documents, annotations, reachable, issued>>

\* update_annotation on a thread of the pool, the rest of it: the list read is
\* written with the annotation updated, or nothing is written and 404 raised.
UpdateWrite ==
    \E rid \in At("update", "write") :
        LET f == handlers[rid]
            was == DictSet(annotations, f.document_id, f.rest.read)
            found == Find(f.rest.read, f.annotation_id) # None
        IN  /\ annotations' = IF found
                               THEN storage_update_annotation(was, f.document_id,
                                                              f.annotation_id, f.rest.updates)
                               ELSE annotations
            /\ Resume(rid, [f EXCEPT !.pc = IF found THEN "returned" ELSE "raised"])
            /\ last' = [op |-> "update_annotation", pc |-> "write", rid |-> rid,
                        document_id |-> f.document_id, annotation_id |-> f.annotation_id,
                        updates |-> f.rest.updates,
                        outcome |-> IF found THEN "returned" ELSE "raised"]
            /\ NotServed
            /\ Quiet
            /\ UNCHANGED <<documents, reachable, issued>>

\* The batch tool and the accept endpoint.
NextBatch ==
    \/ UploadDocument \/ HealthChanges
    \/ BatchStart \/ BatchHealth \/ BatchDocument
    \/ AcceptStart \/ AcceptHealth \/ AcceptAdd

SpecBatch == Init /\ [][NextBatch]_vars

\* The endpoints that write the annotations of a document.
NextWrites ==
    \/ UploadDocument \/ CreateAnnotation \/ DeleteAnnotation
    \/ UpdateRead \/ UpdateWrite

SpecWrites == Init /\ [][NextWrites]_vars

-----------------------------------------------------------------------------
(* What the claims speak of *)

\* The object's state after the step.
stNext == [id_map |-> id_map', metadata |-> metadata', next_id |-> next_id']

\* The ids the index holds.
IndexIds(s) == Range(s.id_map.ids)

\* No id is stored twice in the index.
IdsOnce(s) ==
    \A p, r \in 1..ntotal(s.id_map) : s.id_map.ids[p] = s.id_map.ids[r] => p = r

\* Index and metadata hold the same ids, each once.
InSync(s) ==
    /\ IndexIds(s) = DOMAIN s.metadata
    /\ IdsOnce(s)
    /\ count(s) = Cardinality(DOMAIN s.metadata)

\* The vectors the index holds under id, in storage order.
VectorsOf(s, id) ==
    Compact(s.id_map.xb, {p \in 1..ntotal(s.id_map) : s.id_map.ids[p] = id}, 1)

\* Some search of s returns id.
Found(s, id) ==
    \E q \in Queries, k \in 1..MaxK, f \in LabelFilters :
        LET results == search(s, q, k, f)
        IN  \E i \in DOMAIN results : results[i].id = id

\* The ids whose metadata has this text and this label.
Matching(s, text, label) ==
    {eid \in DOMAIN s.metadata :
        s.metadata[eid].text = text /\ s.metadata[eid].label = label}

\* The exemplar id is stored in t as it is in s.
SameExemplar(s, t, id) ==
    /\ id \in DOMAIN t.metadata
    /\ t.metadata[id] = s.metadata[id]
    /\ VectorsOf(t, id) = VectorsOf(s, id)

-----------------------------------------------------------------------------
(* C1.  Identity invariant: in every state reached from the empty store by  *)
(* calls of add, remove and remove_by_text_and_label (calls whose _save     *)
(* fails included, and reloads of files every _save completed on), the ids  *)
(* in the index are the keys of the metadata map, each id once in the       *)
(* index, and count() is the number of metadata entries.                    *)
C1_IdentityInvariant == (up /\ ~recovered) => InSync(st)

C1_Witness ==
    /\ up /\ ~recovered /\ faults > 0
    /\ last.op = "remove" /\ last.outcome = "returned" /\ last.ret = Some(TRUE)
    /\ count(st) >= 1

(* C2.  Ids are never reused: over add, remove, remove_by_text_and_label,   *)
(* persisting and restarts, each id add returns is greater than every id    *)
(* add returned before, deleted or not.                                     *)
C2_IdsNeverReused ==
    \A i, j \in DOMAIN returned : i < j => returned[i] < returned[j]

C2_Witness ==
    /\ up /\ recovered
    /\ last.op = "add" /\ last.outcome = "returned"
    /\ Len(returned) >= 2
    /\ returned[1] \notin DOMAIN metadata

(* C3.  add is atomic for its caller: when the write inside add fails, the  *)
(* call fails and the new vector and the new metadata entry are not visible *)
(* afterwards (the index and the metadata map are as before the call); when *)
(* it succeeds, both are visible.                                           *)
C3_AddAtomic ==
    [][(last'.op = "add" /\ up') =>
          /\ (faults' = faults + 1) =>
                /\ last'.outcome = "raised"
                /\ id_map' = id_map
                /\ metadata' = metadata
          /\ (last'.outcome = "returned" /\ returned' # returned) =>
                /\ last'.ret[1] \in IndexIds(stNext)
                /\ last'.ret[1] \in DOMAIN metadata']_vars

(* C4.  Crash consistency: when the process stops inside a mutating call    *)
(* and is started again, the reloaded index ids and the reloaded metadata   *)
(* keys are equal, and are those of the last flush that completed.          *)
C4_CrashConsistent ==
    [][(last.outcome = "crashed" /\ last'.op = "load" /\ last'.outcome = "returned") =>
          /\ IndexIds(stNext) = DOMAIN metadata'
          /\ IndexIds(stNext) = IndexIds(flushed)
          /\ DOMAIN metadata' = DOMAIN flushed.metadata]_vars

(* C5.  Idempotent load: after successful adds and removes, a store         *)
(* constructed from the files has the count, the metadata of every id, the  *)
(* next-id counter and the search results (entries and order) of the store  *)
(* that wrote them.                                                         *)
C5_IdempotentLoad ==
    [][last'.op = "load" =>
          /\ last'.outcome = "returned"
          /\ count(stNext) = count(st)
          /\ metadata' = metadata
          /\ next_id' = next_id
          /\ \A q \in Queries, k \in 1..MaxK, f \in LabelFilters :
                search(stNext, q, k, f) = search(st, q, k, f)]_vars

C5_Witness ==
    /\ last.op = "load" /\ last.outcome = "returned"
    /\ count(st) >= 2
    /\ next_id > count(st)

(* C6.  remove(id) of a stored id returns true; afterwards no search        *)
(* returns id and get(id) finds nothing, count() is one less, and every     *)
(* other id keeps its vector and its metadata.                              *)
C6_RemoveStored ==
    [][(last'.op = "remove" /\ last'.exemplar_id \in DOMAIN metadata) =>
          /\ last'.outcome = "returned"
          /\ last'.ret = Some(TRUE)
          /\ ~Found(stNext, last'.exemplar_id)
          /\ get(stNext, last'.exemplar_id) = None
          /\ count(stNext) = count(st) - 1
          /\ \A other \in DOMAIN metadata \ {last'.exemplar_id} :
                SameExemplar(st, stNext, other)]_vars

C6_Witness ==
    /\ last.op = "remove" /\ last.ret = Some(TRUE)
    /\ count(st) >= 2
    /\ last.exemplar_id < next_id - 1

(* C7.  Deleting what is not stored changes nothing: remove of an absent id *)
(* returns false, remove_by_text_and_label with no exact match returns 0,   *)
(* and the index, the metadata map, the counter and the files stay as they  *)
(* were.                                                                    *)
C7_DeleteAbsent ==
    [][/\ (last'.op = "remove" /\ last'.exemplar_id \notin DOMAIN metadata) =>
              /\ last'.outcome = "returned"
              /\ last'.ret = Some(FALSE)
              /\ UNCHANGED <<id_map, metadata, next_id, indexFile, metadataFile>>
       /\ (/\ last'.op = "remove_by_text_and_label"
           /\ Matching(st, last'.text, last'.label) = {}) =>
              /\ last'.outcome = "returned"
              /\ last'.ret = Some(0)
              /\ UNCHANGED <<id_map, metadata, next_id, indexFile, metadataFile>>]_vars

C7_Witness ==
    /\ last.op = "remove_by_text_and_label" /\ last.ret = Some(0)
    /\ count(st) >= 2
    /\ \E eid \in DOMAIN metadata :
          metadata[eid].text = last.text /\ metadata[eid].label # last.label

(* C8.  remove_by_text_and_label(text, label) returns the number of stored  *)
(* exemplars whose text and label both equal the arguments; afterwards none *)
(* of them remains, count() is less by that number, and every exemplar      *)
(* differing in text or label is stored unchanged.                          *)
C8_RemoveByTextAndLabel ==
    [][last'.op = "remove_by_text_and_label" =>
          /\ last'.outcome = "returned"
          /\ last'.ret = Some(Cardinality(Matching(st, last'.text, last'.label)))
          /\ Matching(stNext, last'.text, last'.label) = {}
          /\ \A eid \in Matching(st, last'.text, last'.label) :
                eid \notin IndexIds(stNext)
          /\ count(stNext) = count(st) - last'.ret[1]
          /\ \A other \in DOMAIN metadata \ Matching(st, last'.text, last'.label) :
                SameExemplar(st, stNext, other)]_vars

C8_Witness ==
    /\ last.op = "remove_by_text_and_label" /\ last.ret = Some(2)
    /\ count(st) = 1

\* The stored label of every entry of the results is the label filtered by.
AllLabelled(results, label_filter) ==
    \A i \in DOMAIN results : label_of(st, results[i].id) = label_filter

(* C9.  Filtered search is sound: a search with a non-empty label L as its  *)
(* filter returns no entry whose stored label differs from L; a search      *)
(* returns at most k entries, whatever the filter.                          *)
C9_FilteredSearchSound ==
    last.op = "search" =>
        /\ Len(last.ret) <= last.k
        /\ Truthy(last.label_filter) => AllLabelled(last.ret, last.label_filter)

\* C9 as claimed, for every label supplied as the filter.
C9_AnyLabelSupplied ==
    (last.op = "search" /\ last.label_filter # None) =>
        /\ Len(last.ret) <= last.k
        /\ AllLabelled(last.ret, last.label_filter)

C9_Witness ==
    /\ last.op = "search" /\ last.label_filter = Some("ORG")
    /\ Len(last.ret) = 1
    /\ \E eid \in DOMAIN metadata : metadata[eid].label = "PER"

\* The number of exemplars stored with the label of an Optional[str].
Labelled(label_filter) ==
    Cardinality({eid \in DOMAIN metadata : Some(metadata[eid].label) = label_filter})

(* C10.  Filtered search is complete: when the store holds m < k exemplars  *)
(* with label L, a search filtered by L returns exactly m entries, however  *)
(* many exemplars of other labels there are and however they rank.          *)
C10_FilteredSearchComplete ==
    (/\ last.op = "search"
     /\ Truthy(last.label_filter)
     /\ Labelled(last.label_filter) < last.k) =>
        Len(last.ret) = Labelled(last.label_filter)


\* C11: a search of a store that holds no vector returns the empty list and
\* does not raise, whatever the query, k and the label filter, and it leaves
\* the index, the metadata, the counter and the two files as they were.
C11_SearchEmptyStore ==
    [][(last'.op = "search" /\ count(st) = 0)
          => /\ last'.outcome = "returned"
             /\ last'.ret = <<>>
             /\ UNCHANGED <<id_map, metadata, next_id, indexFile, metadataFile>>]_vars

\* A store emptied by removals is searched with k = 0 and a label filter.
C11_Witness ==
    /\ last.op = "search"
    /\ count(st) = 0
    /\ next_id > 0
    /\ last.k = 0
    /\ Truthy(last.label_filter)
    /\ last.ret = <<>>


\* The sum of the i-th components of the embeddings es.
ComponentSum(es, i) == Sum([k \in DOMAIN es |-> es[k][i]])

Window(profile) ==
    [i \in DOMAIN profile.embeddings |->
        [embedding |-> profile.embeddings[i], label |-> profile.labels[i]]]

\* C13: of every annotator's profile the embeddings and the labels are equally
\* many and at most ProfileCapacity; and as long as the object that took the
\* calls of update_annotator_profile lives, the i-th embedding and the i-th
\* label are those of one observation, and the profile holds the latest
\* min(n, ProfileCapacity) of the annotator's n observations in the order they
\* came in.
C13_AnnotatorWindow ==
    /\ \A a \in DOMAIN annotator_profiles :
           /\ Len(annotator_profiles[a].embeddings) = Len(annotator_profiles[a].labels)
           /\ Len(annotator_profiles[a].embeddings) <= ProfileCapacity
    /\ ~reloaded =>
           /\ DOMAIN annotator_profiles = DOMAIN arrived
           /\ \A a \in DOMAIN arrived :
                  Window(annotator_profiles[a]) = LastN(arrived[a], ProfileCapacity)

\* An annotator has made more observations than a profile holds, the first
\* unlike the later ones, and the profile is full.
C13_Witness ==
    /\ ~reloaded
    /\ last.op = "update_annotator_profile"
    /\ \E a \in DOMAIN arrived :
           /\ Len(arrived[a]) > ProfileCapacity
           /\ arrived[a][1] # arrived[a][2]
           /\ arrived[a][2] # arrived[a][3]
           /\ Len(annotator_profiles[a].embeddings) = ProfileCapacity


\* C14: a StyleScorer constructed from the files has the centroids, the counts
\* and, for every annotator, the whole history (the embeddings and the labels,
\* in their order) that the object before the restart had.
C14_RestartKeepsStyle ==
    last.op = "style_load" =>
        /\ label_centroids = last.before.label_centroids
        /\ label_counts = last.before.label_counts
        /\ annotator_profiles = last.before.annotator_profiles


\* C15: when the service starts with any of its four files absent, both loads
\* return, the vectors of the index and the keys of the metadata are the same
\* ids, and what an absent file would have held is empty.
C15_StartWithMissingFiles ==
    (/\ last.op = "start"
     /\ \/ ~indexFile.exists \/ ~metadataFile.exists
        \/ ~centroidsFile.exists \/ ~profilesFile.exists)
    => /\ last.outcome = "returned"
       /\ up
       /\ InSync(st)
       /\ ~indexFile.exists => count(st) = 0
       /\ ~metadataFile.exists => metadata = <<>> /\ next_id = 0
       /\ ~centroidsFile.exists => label_centroids = <<>> /\ label_counts = <<>>
       /\ ~profilesFile.exists => annotator_profiles = <<>>


StyleState == <<label_centroids, label_counts, annotator_profiles>>

\* C16: a call of remove, of remove_by_text_and_label or of the endpoint
\* delete_exemplar leaves every centroid, every count and every profile as it
\* was, and no step of the service takes a label's centroid away.
C16_DeletionKeepsStyle ==
    [][/\ last'.op \in {"remove", "remove_by_text_and_label", "delete_exemplar"}
             => UNCHANGED StyleState
       /\ DOMAIN label_centroids \subseteq DOMAIN label_centroids']_vars

\* The last exemplar of a label that has a centroid was deleted through the
\* endpoint, and an annotator has a profile.
C16_Witness ==
    /\ last.op = "delete_exemplar"
    /\ last.ret.removed_count > 0
    /\ last.label \in DOMAIN label_centroids
    /\ \A eid \in DOMAIN metadata : metadata[eid].label # last.label
    /\ annotator_profiles # <<>>

\* The observation add_exemplar makes of the annotation in.
Observation(in) ==
    [embedding |-> create_annotation_embedding(in.text, in.label, "", ""), label |-> in.label]

\* What a call of add_exemplar for the annotation in does to the counts.
Committed(in) ==
    /\ count(stNext) = count(st) + 1
    /\ in.label \in DOMAIN label_centroids'
    /\ label_counts'[in.label] = Get(label_counts, in.label, 0) + 1

\* The profile of annotator a has one more observation, that of in, the oldest
\* one making room for it in a full profile; the other profiles are as before.
Appended(a, in) ==
    /\ DOMAIN annotator_profiles' = DOMAIN annotator_profiles \cup {a}
    /\ Window(annotator_profiles'[a])
           = LastN(Append(Window(profile_of(sc, a)), Observation(in)), ProfileCapacity)
    /\ \A b \in DOMAIN annotator_profiles \ {a} :
           annotator_profiles'[b] = annotator_profiles[b]

\* C17: a call of add_exemplar that returns raises count() by one and the
\* observation count of its label by one, the label having a centroid
\* afterwards; with an annotator id that is not empty it appends one
\* observation to that annotator's profile, and with none, or with the empty
\* string, it leaves all profiles as they were.
C17_CommitEffect ==
    [][last'.op = "add_exemplar" =>
          /\ Committed(last')
          /\ IF Truthy(last'.annotator_id)
             THEN Appended(last'.annotator_id[1], last')
             ELSE UNCHANGED annotator_profiles]_vars

\* C17 as stated: it appends to the profile whenever an annotator id is given.
C17_AnyAnnotatorSupplied ==
    [][last'.op = "add_exemplar" =>
          /\ Committed(last')
          /\ IF last'.annotator_id # None
             THEN Appended(last'.annotator_id[1], last')
             ELSE UNCHANGED annotator_profiles]_vars

\* A second exemplar of a label was added with an annotator id, after one with
\* none.
C17_Witness ==
    /\ last.op = "add_exemplar"
    /\ Truthy(last.annotator_id)
    /\ last.ret.label_count = 2
    /\ last.ret.total_exemplars = 2
    /\ DOMAIN annotator_profiles = {last.annotator_id[1]}
    /\ Len(annotator_profiles[last.annotator_id[1]].embeddings) = 1


\* The breakdown score_suggestion gives the candidate c in the state there is.
Breakdown(c, exemplar_embeddings, annotator_id) ==
    score_suggestion(sc, Get(c, "text", ""), Get(c, "label", ""), "",
                     Get(c, "rationale", ""), exemplar_embeddings, annotator_id, Weights)

\* out is the candidate c with its breakdown attached and its confidence
\* replaced by the combined score.
RankedFrom(out, c, exemplar_embeddings, annotator_id) ==
    /\ DOMAIN out = DOMAIN c \cup {"style_scores", "confidence"}
    /\ \A f \in DOMAIN c \ {"confidence"} : out[f] = c[f]
    /\ out.style_scores = Breakdown(c, exemplar_embeddings, annotator_id)
    /\ out.confidence = out.style_scores.combined_score

\* C18: rank_suggestions returns the candidates it was given, each once, each
\* with its breakdown attached and its confidence replaced by the combined
\* score, in the order of falling combined score, candidates of equal score in
\* the order they were given in.  (There is one such list, so the order is the
\* same whenever the candidates, the embeddings, the scorer's state and the
\* weights are.)
C18_RankStable ==
    last.op = "rank_suggestions" =>
        LET n == Len(last.suggestions)
        IN  /\ Len(last.ret) = n
            /\ \E p \in Permutations(1..n) :
                   /\ \A i \in 1..n :
                          RankedFrom(last.ret[i], last.suggestions[p[i]],
                                     last.exemplar_embeddings, last.annotator_id)
                   /\ \A i, j \in 1..n :
                          i < j =>
                              \/ last.ret[i].confidence > last.ret[j].confidence
                              \/ /\ last.ret[i].confidence = last.ret[j].confidence
                                 /\ p[i] < p[j]

\* Three candidates were ranked, two of them of equal score and unlike in
\* their rationale, and the one given first is not the one returned first.
C18_Witness ==
    /\ last.op = "rank_suggestions"
    /\ Len(last.ret) = 3
    /\ label_centroids # <<>>
    /\ last.ret[1].text # last.suggestions[1].text
    /\ \E i \in 1..2 :
           /\ last.ret[i].confidence = last.ret[i + 1].confidence
           /\ last.ret[i].rationale # last.ret[i + 1].rationale
    /\ \E i \in 1..2 : last.ret[i].confidence > last.ret[i + 1].confidence

\* The calls that read.
ReadOps ==
    {"suggest", "search", "score_annotation", "score_suggestion", "rank_suggestions",
     "get_stats"}

\* What the read paths are to leave alone: the objects and their files.
ServiceState ==
    <<id_map, metadata, next_id, label_centroids, label_counts, annotator_profiles,
      indexFile, metadataFile, centroidsFile, profilesFile>>

\* C19: a call of suggest (returning, raising or abandoned in any of its
\* steps), of search, of the scoring and ranking methods and of the statistics
\* leaves the index, the metadata, the counter, the centroids, the counts and
\* the profiles as they were; a step that changes any of them is a call of
\* add_exemplar or of a deletion.
C19_ReadsDoNotMutate ==
    [][/\ last'.op \in ReadOps => UNCHANGED ServiceState
       /\ ~(UNCHANGED ServiceState) => last'.op \in {"add_exemplar", "delete_exemplar"}]_vars

\* A call of suggest was abandoned while the language model was being called,
\* the store and the scorer holding exemplars.
C19_Witness ==
    /\ last.op = "suggest"
    /\ last.outcome = "abandoned"
    /\ last.stop[1].step = "llm"
    /\ count(st) > 0
    /\ label_centroids # <<>>
    /\ annotator_profiles # <<>>

\* No annotator has an embedding in a profile.
NoHistory == \A a \in DOMAIN annotator_profiles : annotator_profiles[a].embeddings = <<>>

Did(kind, pc) == last.op = "handler" /\ last.req.kind = kind /\ last.pc = pc

\* C21: when the answer of the language model holds no JSON that parses, the
\* parsing statement of suggest does not raise and makes no suggestion of it,
\* and the call returns normally with an empty list of suggestions, with
\* exemplars_used the number of exemplars retrieved: the smaller of top_k and
\* count(), and the length of the list of exemplars returned.
C21_ParseFailure ==
    /\ Did("suggest", "parse") /\ parse_json_response(last.f.loc.raw_response) = ParsedNone =>
           /\ last.outcome = "running"
           /\ last.f.loc.suggestions = <<>>
    /\ Did("suggest", "rank") /\ last.f.loc.parsed = ParsedNone =>
           /\ last.outcome = "returned"
           /\ last.ret[1].suggestions = <<>>
           /\ last.ret[1].exemplars_used = Min(last.req.top_k, count(last.saw.st))
           /\ last.ret[1].exemplars_used = Len(last.ret[1].exemplars)

\* A call of suggest with top_k = 1 returned from a store of two exemplars
\* after an answer without JSON.
C21_Witness ==
    /\ Did("suggest", "rank")
    /\ last.f.loc.raw_response = RawResponse(None, None, None)
    /\ last.outcome = "returned"
    /\ count(st) = 2
    /\ last.req.top_k = 1
    /\ last.ret[1].exemplars_used = 1


\* The calls of the backend that remove annotations.
RemovalOps ==
    {"delete_annotation", "reject_pending_annotation", "tool_delete_annotation",
     "delete_document"}

\* C22: after an annotation was removed by the delete endpoint, by the delete
\* tool of the chat agent, by the reject endpoint or with its document, the
\* service answering, no exemplar created from the annotation is in the store.
C22_ExemplarFollowsAnnotation ==
    last.op \in RemovalOps /\ last.reachable =>
        \A eid \in DOMAIN metadata \cup Range(id_map.ids) :
            eid \in DOMAIN origin => origin[eid] \notin last.gone


\* The store holds one exemplar, with the text "Apple" and the label "ORG".
OnlyApple(s) ==
    /\ count(s) = 1
    /\ DOMAIN s.metadata = Range(s.id_map.ids)
    /\ \A eid \in DOMAIN s.metadata :
           s.metadata[eid].text = "Apple" /\ s.metadata[eid].label = "ORG"

\* C23: on an empty store add_exemplar("doc1", "Apple", "ORG", 0, 5) leaves
\* count() = 1; a search with k = 1 on the store that holds this exemplar alone
\* returns exactly this exemplar; delete_exemplar("Apple", "ORG") then returns
\* removed_count 1 and leaves count() = 0.
C23_AddSearchDelete ==
    [][/\ /\ count(st) = 0
          /\ last'.op = "add_exemplar"
          /\ last'.text = "Apple" /\ last'.label = "ORG"
          => /\ OnlyApple(stNext)
             /\ last'.ret.total_exemplars = 1
             /\ DOMAIN metadata' = {last'.ret.exemplar_id}
       /\ OnlyApple(st) /\ last'.op = "search" /\ last'.k = 1 /\ ~Truthy(last'.label_filter)
          => /\ Len(last'.ret) = 1
             /\ last'.ret[1].id \in DOMAIN metadata
             /\ last'.ret[1].metadata = metadata[last'.ret[1].id]
       /\ /\ OnlyApple(st)
          /\ last'.op = "delete_exemplar"
          /\ last'.text = "Apple" /\ last'.label = "ORG"
          => /\ last'.ret.removed_count = 1
             /\ last'.ret.total_exemplars = 0
             /\ count(stNext) = 0
             /\ metadata' = <<>>]_vars

\* The one exemplar added to the empty store was deleted by its text and
\* label: the store is empty again and the counter is at 1.
C23_Witness ==
    /\ last.op = "delete_exemplar"
    /\ last.text = "Apple" /\ last.label = "ORG"
    /\ last.ret.removed_count = 1
    /\ count(st) = 0
    /\ next_id = 1


\* C24: once update_label_centroid was given the unit vectors along the first
\* and the second axis for "ORG", and nothing else, the stored centroid is a
\* unit vector, and compute_label_similarity("ORG", c) is 1.0 for c the stored
\* centroid.
C24_CentroidNormalized ==
    /\ "ORG" \in DOMAIN observed
    /\ observed["ORG"] \in {<<Unit(1), Unit(2)>>, <<Unit(2), Unit(1)>>}
    /\ last.op = "compute_label_similarity"
    /\ last.label = "ORG"
    /\ last.candidate = label_centroids["ORG"]
    => /\ FDot(label_centroids["ORG"], label_centroids["ORG"]) = One
       /\ last.ret = One


\* C25: add with a vector whose length is not the dimension of the index
\* raises, and leaves the index, the metadata and the two files as they were:
\* no vector is cut or padded into the index.
C25_DimensionMismatch ==
    [][last'.op = "add" /\ Len(last'.embedding) # dimension =>
           /\ last'.outcome = "raised"
           /\ UNCHANGED <<id_map, metadata, indexFile, metadataFile>>
           /\ \A i \in DOMAIN id_map'.xb : Len(id_map'.xb[i]) = dimension]_vars

\* add was called with a vector one component too long on a store that holds
\* an exemplar in memory and on disk, and raised.
C25_Witness ==
    /\ last.op = "add"
    /\ Len(last.embedding) = dimension + 1
    /\ last.outcome = "raised"
    /\ count(st) > 0
    /\ metadataFile.exists
    /\ json_load_metadata(metadataFile) = metadata


\* C26: when the embedding function raises in add_exemplar, or the embedding
\* function or the language model raises in suggest, the exception leaves the
\* handler, and the index, the metadata, the counter, the files, the
\* centroids, the counts and the profiles are as they were when the handler
\* was started.
C26_FailureLeavesState ==
    /\ last.op = "handler"
    /\ last.req.kind \in {"add_exemplar", "suggest"}
    /\ ~last.in.ok
    => /\ last.outcome = "raised"
       /\ last.f.pc = "done"
       /\ app = last.f.before

\* The language model raised in a call of suggest that had retrieved two
\* exemplars, the scorer holding a centroid and a profile.
C26_Witness ==
    /\ Did("suggest", "llm")
    /\ last.outcome = "raised"
    /\ Len(last.f.loc.exemplars) = 2
    /\ label_centroids # <<>>
    /\ annotator_profiles # <<>>


\* The requests that read the store.
ReadKinds == {"suggest", "search", "score", "get_stats"}

\* C27: whatever requests are in the service together, every statement of a
\* suggest, search, score or stats handler sees an index and a metadata map
\* with the same ids, every result of a search carries the metadata of its id,
\* and the event loop is between handlers only when the two hold the same ids.
C27_NoTornReads ==
    /\ last.op = "handler" /\ last.req.kind \in ReadKinds => InSync(last.saw.st)
    /\ Did("search", "metadata") =>
           \A i \in DOMAIN last.ret[1] :
               /\ last.ret[1][i].id \in DOMAIN last.saw.st.metadata
               /\ last.ret[1][i].metadata = last.saw.st.metadata[last.ret[1][i].id]
    /\ current = None => InSync(st)

\* A search read the metadata of its hits while an add and a delete were
\* waiting in the service, the store holding an exemplar.
C27_Witness ==
    /\ Did("search", "metadata")
    /\ last.ret[1] # <<>>
    /\ running = <<>>
    /\ \E r \in pending : r.kind = "add_exemplar"
    /\ \E r \in pending : r.kind = "delete_exemplar"

RECURSIVE Distinct(_)
\* No id occurs twice in ids.
Distinct(ids) ==
    IF ids = <<>> THEN TRUE
    ELSE Head(ids) \notin Range(Tail(ids)) /\ Distinct(Tail(ids))

\* C28: whatever add and delete requests are in the service together, each
\* handler that returns leaves the service as the whole call, made alone on the
\* service as it was when the handler started, leaves it, and returns what that
\* call returns; the ids the adds returned are distinct; and between handlers
\* count() is the number of adds that returned less the exemplars removed, and
\* the count of each label is the number of adds committed for the label.
C28_SerializedMutations ==
    /\ Did("add_exemplar", "return") =>
           LET a == add_exemplar(last.f.before, "doc1", last.req.text, last.req.label, 0, 5,
                                 "", "", last.req.annotator_id)
           IN  app = a.app /\ last.ret[1] = a.ret
    /\ Did("delete_exemplar", "return") =>
           LET d == delete_exemplar(last.f.before, last.req.text, last.req.label)
           IN  app = d.app /\ last.ret[1] = d.ret
    /\ Distinct(returned)
    /\ current = None =>
           /\ count(st) = Len(returned) - removed
           /\ DOMAIN label_counts = DOMAIN observed
           /\ \A label \in DOMAIN observed : label_counts[label] = Len(observed[label])

\* The second of two adds returned while a delete was waiting, after a delete
\* had removed an exemplar: two ids were given and one exemplar is left.
C28_Witness ==
    /\ Did("add_exemplar", "return")
    /\ Len(returned) = 2
    /\ removed = 1
    /\ count(st) = 1
    /\ \E r \in pending : r.kind = "delete_exemplar"


\* Where in the calls of a handler the call of name stands.
Positions(calls, name) == {i \in DOMAIN calls : calls[i] = name}

\* Every call of a comes before every call of b.
Precedes(calls, a, b) == \A i \in Positions(calls, a), j \in Positions(calls, b) : i < j

\* C29: in every call of suggest, as far as it got, the first call made is the
\* embedding of the query; search is called only on a store that holds
\* exemplars, and before the language model; the language model is called at
\* most once, and exactly once in a call that returns, also when no exemplar
\* was retrieved; the answer is parsed after the language model was called;
\* rank_suggestions is called at most once, after the parsing, and only when
\* ranking is enabled and the parsing gave a suggestion.
C29_SuggestOrder ==
    last.op = "handler" /\ last.req.kind = "suggest" =>
        LET calls == last.f.calls
        IN  /\ calls[1] = "embed_single"
            /\ Positions(calls, "search") # {} => count(last.saw.st) > 0
            /\ Cardinality(Positions(calls, "search")) <= 1
            /\ Precedes(calls, "search", "complete")
            /\ Cardinality(Positions(calls, "complete")) <= 1
            /\ last.outcome = "returned" =>
                   /\ Cardinality(Positions(calls, "complete")) = 1
                   /\ Cardinality(Positions(calls, "parse_json_response")) = 1
            /\ Positions(calls, "parse_json_response") # {} =>
                   Positions(calls, "complete") # {}
            /\ Precedes(calls, "complete", "parse_json_response")
            /\ Cardinality(Positions(calls, "rank_suggestions")) <= 1
            /\ Precedes(calls, "parse_json_response", "rank_suggestions")
            /\ Positions(calls, "rank_suggestions") # {} =>
                   /\ Positions(calls, "parse_json_response") # {}
                   /\ last.req.enable_style_ranking
                   /\ last.f.loc.suggestions # <<>>

\* A call of suggest on the empty store returned ranked suggestions: it called
\* the embedding, count, the language model once, the parsing and the ranking.
C29_Witness ==
    /\ last.op = "handler" /\ last.req.kind = "suggest"
    /\ last.outcome = "returned"
    /\ last.f.loc.exemplars = <<>>
    /\ last.f.calls = <<"embed_single", "count", "build_prompt", "complete",
                        "parse_json_response", "rank_suggestions">>


\* The three components of the style scores and the statistics of each.
Components ==
    {[score |-> "content_similarity", avg |-> "avg_content_similarity"],
     [score |-> "label_similarity", avg |-> "avg_label_similarity"],
     [score |-> "style_similarity", avg |-> "avg_style_similarity"]}

\* The statistic is the mean of the scores: their sum over their number.
IsMean(avg, scores) == avg.sum = Sum(scores) /\ avg.of = Len(scores) /\ avg.of > 0

\* The statistic is 0.0.
IsZero(avg) == avg.sum = 0 /\ avg.of = 0

\* C30 as stated: in what suggest returns, each of the three statistics is
\* the mean of its component over the suggestions of the returned list, each
\* of which carries the component, and 0.0 when the list is empty.
C30_AggregateIsMean ==
    Did("suggest", "rank") =>
        LET final == last.ret[1].suggestions
            stats == last.ret[1].style_ranking
        IN  \A c \in Components :
                IF final = <<>> THEN IsZero(stats[c.avg])
                ELSE /\ \A i \in DOMAIN final : "style_scores" \in DOMAIN final[i]
                     /\ IsMean(stats[c.avg], [i \in DOMAIN final |-> final[i].style_scores[c.score]])

\* C30, amended: when ranking is enabled and the returned list is not empty,
\* each statistic is the mean of its component over the suggestions of the
\* list; when the list is empty or ranking is disabled, each statistic is 0.0
\* and no suggestion carries style scores.
C30_AggregateWhenRanked ==
    Did("suggest", "rank") =>
        LET final == last.ret[1].suggestions
            stats == last.ret[1].style_ranking
        IN  \A c \in Components :
                IF final # <<>> /\ last.req.enable_style_ranking
                THEN /\ \A i \in DOMAIN final : "style_scores" \in DOMAIN final[i]
                     /\ IsMean(stats[c.avg], [i \in DOMAIN final |-> final[i].style_scores[c.score]])
                ELSE /\ IsZero(stats[c.avg])
                     /\ \A i \in DOMAIN final : "style_scores" \notin DOMAIN final[i]

\* A call of suggest with ranking enabled returned two suggestions whose
\* content similarities differ.
C30_Witness ==
    /\ Did("suggest", "rank")
    /\ last.req.enable_style_ranking
    /\ Len(last.ret[1].suggestions) = 2
    /\ last.ret[1].suggestions[1].style_scores.content_similarity
           # last.ret[1].suggestions[2].style_scores.content_similarity


\* What the index gives as the n vectors nearest to the query of the last
\* search, best first.
Nearest(n) == index_search(id_map, last.query_embedding, n)

\* The first n entries of a list, or all of them.
Firsts(list, n) == SubSeq(list, 1, Min(n, Len(list)))

\* The entries of hits stored with the label.
OfLabel(hits, label) == SelectSeq(hits, LAMBDA h : label_of(st, h.id) = Some(label))

\* The results are the hits, in their order, each with its stored metadata.
AreHits(results, hits) ==
    /\ Len(results) = Len(hits)
    /\ \A i \in DOMAIN hits :
           /\ results[i].id = hits[i].id
           /\ results[i].score = hits[i].score
           /\ results[i].metadata = metadata_or_empty(st, hits[i].id)

\* The scores of the results do not ascend.
Descending(results) ==
    \A i, j \in DOMAIN results : i < j => results[i].score >= results[j].score

\* C31 as stated, for every label supplied as the filter: search returns the
\* first k, in order, of the min(3k, count()) nearest vectors whose stored
\* label is the filter; without a filter it returns the min(k, count())
\* nearest; the results are in descending order of similarity.
C31_AnyFilterOverFetches ==
    last.op = "search" /\ count(st) > 0 =>
        /\ Descending(last.ret)
        /\ IF last.label_filter # None
           THEN AreHits(last.ret,
                        Firsts(OfLabel(Nearest(Min(3 * last.k, count(st))),
                                       last.label_filter[1]),
                               last.k))
           ELSE AreHits(last.ret, Nearest(Min(last.k, count(st))))

\* C31, amended: the same for every non-empty label supplied as the filter; a
\* search whose filter is the empty string returns the min(k, count()) nearest
\* of any label, as a search without a filter.
C31_OverFetchThenFilter ==
    last.op = "search" /\ count(st) > 0 =>
        /\ Descending(last.ret)
        /\ Descending(Nearest(count(st)))
        /\ IF Truthy(last.label_filter)
           THEN AreHits(last.ret,
                        Firsts(OfLabel(Nearest(Min(3 * last.k, count(st))),
                                       last.label_filter[1]),
                               last.k))
           ELSE /\ AreHits(last.ret, Nearest(Min(last.k, count(st))))
                /\ Len(last.ret) = Min(last.k, count(st))

\* A search with k = 1 filtered by a label returned the exemplar that is the
\* third nearest, the two nearer ones having another label, in a store of more
\* than three exemplars.
C31_Witness ==
    /\ last.op = "search"
    /\ last.k = 1
    /\ Truthy(last.label_filter)
    /\ count(st) > 3
    /\ Len(last.ret) = 1
    /\ last.ret[1].id = Nearest(3)[3].id
    /\ OfLabel(Nearest(2), last.label_filter[1]) = <<>>

-----------------------------------------------------------------------------
(* C32: the histories a style similarity is computed from *)

\* The sum of the similarities of v to the last n embeddings of es.
RECURSIVE SumRecent(_, _, _)
SumRecent(v, es, n) ==
    IF n = 0 \/ es = <<>> THEN 0
    ELSE FDot(v, es[Len(es)]) + SumRecent(v, SubSeq(es, 1, Len(es) - 1), n - 1)

RECURSIVE PooledSum(_, _, _)
PooledSum(v, profiles, S) ==
    IF S = {} THEN 0
    ELSE LET a == CHOOSE x \in S : TRUE
         IN  SumRecent(v, profiles[a].embeddings, OthersRecent) + PooledSum(v, profiles, S \ {a})

RECURSIVE PooledCount(_, _)
PooledCount(profiles, S) ==
    IF S = {} THEN 0
    ELSE LET a == CHOOSE x \in S : TRUE
         IN  Min(OthersRecent, Len(profiles[a].embeddings)) + PooledCount(profiles, S \ {a})

\* The annotator of the last call has a history.
HasHistory ==
    /\ last.annotator_id # None
    /\ last.annotator_id[1] \in DOMAIN annotator_profiles
    /\ Len(annotator_profiles[last.annotator_id[1]].embeddings) >= 1

\* The profiles that differ from the current ones in the histories of the
\* annotators the last call does not name.
OtherProfiles ==
    LET named == last.annotator_id[1]
        rest == Annotators \ {named}
    IN  {[a \in {named} \cup {x \in rest : Len(h[x].embeddings) > 0} |->
             IF a = named THEN annotator_profiles[named] ELSE h[a]] :
            h \in [rest -> {g \in Histories : Len(g.embeddings) <= MaxHistory}]}

\* C32: the style similarity of a call that names an annotator with at least
\* one observation is the mean similarity to the last min(10, n) observations
\* of that annotator, whatever the histories of the others; that of any other
\* call is the mean similarity over the last min(5, n) observations of every
\* tracked annotator taken together.
C32_StyleSource ==
    last.op = "compute_style_similarity" =>
        IF HasHistory
        THEN LET es == annotator_profiles[last.annotator_id[1]].embeddings
             IN  /\ last.ret = RoundDiv(SumRecent(last.candidate_embedding, es, OwnRecent),
                                        Min(OwnRecent, Len(es)))
                 /\ \A others \in OtherProfiles :
                        compute_style_similarity(
                            [label_centroids |-> label_centroids,
                             label_counts |-> label_counts,
                             annotator_profiles |-> others],
                            last.candidate_embedding, last.annotator_id) = last.ret
        ELSE PooledCount(annotator_profiles, DOMAIN annotator_profiles) > 0 =>
                 last.ret = RoundDiv(PooledSum(last.candidate_embedding, annotator_profiles,
                                               DOMAIN annotator_profiles),
                                     PooledCount(annotator_profiles, DOMAIN annotator_profiles))

\* A call names an annotator whose history is longer than the window of 10 and
\* whose older observations would change the mean.
C32_Witness ==
    /\ last.op = "compute_style_similarity"
    /\ HasHistory
    /\ LET es == annotator_profiles[last.annotator_id[1]].embeddings
       IN  /\ Len(es) > OwnRecent
           /\ last.ret # FMean([i \in DOMAIN es |-> FDot(last.candidate_embedding, es[i])])
    /\ DOMAIN annotator_profiles = Annotators

-----------------------------------------------------------------------------
(* C33: the combined score *)

-----------------------------------------------------------------------------
(* C34: the shapes of answer that are parsed *)

RECURSIVE Closing(_, _, _)
\* The place of the bracket that closes the brackets open at place i of ts,
\* 0 when there is none.
Closing(ts, i, open) ==
    IF i > Len(ts) THEN 0
    ELSE IF ts[i] = "[" THEN Closing(ts, i + 1, open + 1)
    ELSE IF ts[i] = "]" THEN IF open = 1 THEN i ELSE Closing(ts, i + 1, open - 1)
    ELSE Closing(ts, i + 1, open)

\* The first array in brackets of a text: from the first opening bracket to
\* the bracket that closes it.
FirstArray(ts) ==
    LET opens == Places(ts, {"["})
    IN  IF opens = {} \/ Closing(ts, SetMin(opens), 0) = 0 THEN None
        ELSE Some(SubSeq(ts, SetMin(opens), Closing(ts, SetMin(opens), 0)))

\* The first object in braces of a text.
FirstObject(ts) ==
    LET objects == Places(ts, Objects)
    IN  IF objects = {} THEN None ELSE Some(<<ts[SetMin(objects)]>>)

\* The JSON value extracted from a text: that of the fenced block or of the
\* whole text, else that of the first array, else that of the first object.
Extracted(ts) ==
    LET response == json_match(ts)
        array == FirstArray(response)
        object == FirstObject(response)
    IN  IF json_loads(response) # None THEN json_loads(response)
        ELSE IF array # None /\ json_loads(array[1]) # None THEN json_loads(array[1])
        ELSE IF object # None THEN json_loads(object[1])
        ELSE None

RECURSIVE ObjectsIn(_)
\* The text and the label of the objects among the elements, in their order.
ObjectsIn(items) ==
    IF items = <<>> THEN <<>>
    ELSE IF "kind" \in DOMAIN Head(items) THEN ObjectsIn(Tail(items))
    ELSE <<[text |-> Head(items).text, label |-> Head(items).label]>> \o ObjectsIn(Tail(items))

\* C34: an answer parses without raising; the suggestions of one that holds a
\* JSON array are the objects among its elements, one each and in the order of
\* the array, those of one that holds a single JSON object are one suggestion
\* with its label, and any other answer gives none, where the value is looked
\* for in the fenced block, then in the first array in brackets, then in the
\* first object in braces.
C34_ParseShapes ==
    last.op = "parse_json_response" =>
        LET value == Extracted(last.response)
            made == last.suggestions
        IN  /\ last.outcome = "returned"
            /\ IF value # None /\ value[1].kind = "list"
               THEN [i \in DOMAIN made |-> [text |-> made[i].text, label |-> made[i].label]]
                        = ObjectsIn(value[1].items)
               ELSE IF value # None /\ value[1].kind = "dict"
               THEN Len(made) = 1 /\ made[1].label = value[1].item.label
               ELSE made = <<>>

-----------------------------------------------------------------------------
(* C35: the exemplar is added on a best effort *)

CreateOps == {"create_annotation", "tool_create_annotation"}

\* C35: a call that creates an annotation returns the annotation and leaves it
\* stored with the annotations of its document, whether the service answered
\* the health check and added the exemplar, answered it and failed in
\* add_exemplar, or did not answer it; the annotations stored before are
\* stored still.
C35_BestEffortExemplar ==
    [][\A op \in CreateOps :
          last'.op = op /\ last' # last =>
              /\ last'.outcome = "returned"
              /\ last'.ret = last'.annotation
              /\ Find(get_annotations(annotations', last'.document_id), last'.annotation.id)
                     = Some(last'.annotation)
              /\ \A d \in DOMAIN annotations :
                     \A i \in DOMAIN annotations[d] : annotations'[d][i] = annotations[d][i]]_vars

\* An annotation was created while the service answered the health check and
\* failed in add_exemplar: it is stored and no exemplar came of it.
C35_Witness ==
    /\ last.op \in CreateOps
    /\ last.reachable /\ last.failed
    /\ Find(get_annotations(annotations, last.document_id), last.annotation.id)
           = Some(last.annotation)
    /\ last.annotation.id \notin Range(origin)

-----------------------------------------------------------------------------
(* C36: the style state covers the store *)

\* The stored exemplars of the label.
Stored(label) == {eid \in DOMAIN metadata : metadata[eid].label = label}

\* C36: of every label of a stored exemplar there is a centroid, and the label
\* has been observed at least as many times as there are stored exemplars of
\* it, in every state reached from the empty state by calls of add_exemplar
\* and deletions.
C36_StyleCoversStore ==
    \A eid \in DOMAIN metadata :
        LET label == metadata[eid].label
        IN  /\ label \in DOMAIN label_centroids
            /\ Get(label_counts, label, 0) >= Cardinality(Stored(label))

-----------------------------------------------------------------------------
(* C37: an annotation of a batch is accepted once *)

\* The calls of accept_pending_annotation that found the annotation.
Accepts(ann_id) ==
    {rid \in DOMAIN handlers :
        /\ handlers[rid].op = "accept"
        /\ handlers[rid].annotation_id = ann_id
        /\ handlers[rid].rest.annotation # None}

\* C37: of the calls of accept_pending_annotation for one annotation, in
\* whatever order their steps are taken, at most one finds the source
\* pending_batch and sets it to batch_ai, at most one issues a call of
\* add_exemplar and at most one exemplar comes of the annotation; every call
\* that starts after that one answers already_accepted and issues no call.
C37_AcceptOnce ==
    \A ann_id \in AnnotationIds :
        /\ Cardinality({rid \in Accepts(ann_id) : handlers[rid].ret = "accepted"}) <= 1
        /\ Cardinality({rid \in Accepts(ann_id) : handlers[rid].rest.called}) <= 1
        /\ Cardinality({eid \in DOMAIN origin : origin[eid] = ann_id}) <= 1
        /\ \A i, j \in Accepts(ann_id) :
               i < j /\ handlers[i].ret = "accepted" =>
                   /\ handlers[j].ret = "already_accepted"
                   /\ handlers[j].pc = "returned"
                   /\ ~handlers[j].rest.called
        /\ \A rid \in Accepts(ann_id) :
               handlers[rid].ret = "accepted" =>
                   /\ handlers[rid].rest.annotation[1].source = "pending_batch"
                   /\ LET now == Find(get_annotations(annotations, handlers[rid].document_id),
                                      ann_id)
                      IN  now # None /\ now[1].source = "batch_ai"

\* A second call for an annotation has answered already_accepted while the
\* first, which has issued its call of add_exemplar, awaits the service.
C37_Witness ==
    \E ann_id \in AnnotationIds :
        \E i, j \in Accepts(ann_id) :
            /\ i < j
            /\ handlers[i].pc = "add" /\ handlers[i].rest.called
            /\ handlers[j].ret = "already_accepted"

-----------------------------------------------------------------------------
(* C38: the annotations a batch creates *)

\* C38: a passage of batch_annotate_all with auto_accept over a document
\* leaves no two annotations of the document with the same text and label
\* unless both were there before it, gives every annotation it creates the
\* source pending_batch, and calls add_exemplar for none of them.
C38_BatchCreates ==
    [][last'.op = "batch_annotate_all" /\ last'.pc = "suggest" /\ last'.auto_accept =>
          LET old == get_annotations(annotations, last'.document_id)
              new == get_annotations(annotations', last'.document_id)
          IN  /\ \A i, j \in DOMAIN new :
                     (/\ i < j
                      /\ new[i].text = new[j].text
                      /\ new[i].label = new[j].label) => j <= Len(old)
              /\ \A i \in DOMAIN new : i > Len(old) => new[i].source = "pending_batch"
              /\ id_map' = id_map /\ metadata' = metadata /\ origin' = origin]_vars

-----------------------------------------------------------------------------
(* C39: the writes of annotations that are acknowledged *)

\* C39: when a step leaves no request in progress, every annotation that was
\* in the file of its document before the step (its creation was acknowledged)
\* is in the file after it, unless the step is the deletion of that
\* annotation, and the annotation of an update that the step acknowledges
\* carries the update.
C39_NoLostWrites ==
    [][(\A rid \in DOMAIN handlers' : handlers'[rid].pc # "write") =>
          /\ \A d \in DOMAIN annotations :
                 \A i \in DOMAIN annotations[d] :
                     \/ Find(get_annotations(annotations', d), annotations[d][i].id) # None
                     \/ /\ last'.op \in RemovalOps
                        /\ annotations[d][i].id \in last'.gone
          /\ (last'.op = "update_annotation" /\ last'.outcome = "returned") =>
                 LET now == Find(get_annotations(annotations', last'.document_id),
                                 last'.annotation_id)
                 IN  /\ now # None
                     /\ \A field \in DOMAIN last'.updates :
                            now[1][field] = last'.updates[field]]_vars

=============================================================================
